---- MODULE Spec2Model ----
(***************************************************************************)
(* Telebiz: the reminders tool executor (executeRemindersTool and          *)
(* parseRemindAt) and the provider entity form (forms.ts field builder and *)
(* ProviderEntityForm).                                                    *)
(*                                                                         *)
(* Text is a sequence of one-character strings, so that trimming,          *)
(* lower-casing and the regular expressions of parseRemindAt are computed  *)
(* character by character.  A Date is its time value in UTC, kept as whole *)
(* days and milliseconds within the day (two limbs, so that the arithmetic *)
(* stays exact beyond 32 bits), or the Invalid Date.  Local time is UTC    *)
(* plus a fixed offset tz (no daylight-saving transitions).                *)
(***************************************************************************)
EXTENDS Integers, Sequences, FiniteSets, TLC

VARIABLES
    pc,          \* position of the tool call: "idle", "awaitApi", "done"
    call,        \* [toolName, args] of the call in progress
    shape,       \* how args.remindAt was composed (what the caller meant)
    now,         \* new Date() read by parseRemindAt
    tz,          \* local offset from UTC, minutes
    legacy,      \* what the engine's Date parser makes of a non-ISO string with digits
    remindAt,    \* the local remindAt of executeCreateReminder / executeUpdateReminder
    updateData,  \* executeUpdateReminder's updateData
    apiCalls,    \* reminder API calls issued by this call, in order
    refreshes,   \* loadTelebizReminders calls made by this call
    result,      \* the ToolResult, or the rejection of the promise
    global,      \* global.telebiz.reminders: [isLoading, error, reminders]
    \* ProviderEntityForm (EntityForm)
    props,       \* the component's props: provider, entityType, properties, fieldFilter, ...
    mounted,     \* the component has rendered
    formFields,  \* the memoised field list
    form,        \* the form state, keyed by field name
    initialized, \* the initialized flag
    lastChange,  \* the last handleChange(key, value), or None
    changes,     \* number of handleChange calls so far
    \* normalizeFieldValue
    nfField,     \* the field argument
    nfValue,     \* the value argument
    nfOnce,      \* normalizeFieldValue(field, value), once returned
    nfTwice,     \* normalizeFieldValue(field, the value returned), once returned
    \* CreateEntity / CreateAndAssociateEntity
    component,   \* which of the two components shows the form
    selected,    \* selectedIntegrationId / selectedRelationship is set
    attached,    \* the component is mounted
    screen,      \* the screen of the panel
    isCreating,  \* the isCreating state
    isLoading,   \* the isLoading prop as the form last rendered it
    createError, \* the createError state, "" when undefined
    filled,      \* isFormValid(): some field of the form has a value
    searchQuery, \* the search query of the parent
    runs,        \* the invocations of handleSubmit so far, each with its position
    pending,     \* the external calls not yet settled, as [run, call]
    acted,       \* what each invocation did after a call settled, as [run, what, stale]
    \* MediaEditor
    canvas,            \* the width and height of the canvas
    mode,              \* "draw" or "crop"
    drawActions,       \* the strokes drawn
    currentAction,     \* the stroke being drawn, or Undefined
    isDrawing,         \* the isDrawing flag
    zoom,              \* the zoom, in percent
    imagePosition,     \* the offset of the image
    isDragging,        \* isDragging.current
    lastMousePosition, \* lastMousePosition.current
    lastImagePosition  \* lastImagePosition.current

remVars == <<pc, call, shape, now, tz, legacy, remindAt, updateData, apiCalls, refreshes,
             result, global>>

formVars == <<props, mounted, formFields, form, initialized, lastChange, changes>>

normVars == <<nfField, nfValue, nfOnce, nfTwice>>

createVars == <<component, selected, attached, screen, isCreating, isLoading, createError, filled,
                searchQuery, runs, pending, acted>>

editVars == <<canvas, mode, drawActions, currentAction, isDrawing, zoom, imagePosition,
              isDragging, lastMousePosition, lastImagePosition>>

vars == <<remVars, formVars, normVars, createVars, editVars>>

\* the variables a part of the program leaves alone
exceptRem == <<formVars, normVars, createVars, editVars>>
exceptForm == <<remVars, normVars, createVars, editVars>>
exceptNorm == <<remVars, formVars, createVars, editVars>>
exceptCreate == <<remVars, formVars, normVars, editVars>>
exceptEdit == <<remVars, formVars, normVars, createVars>>

---------------------------------------------------------------------------
(* Text *)

Undefined == [t |-> "undefined"]
Str(s) == [t |-> "string", s |-> s]
Num(n) == [t |-> "number", n |-> n]

UpperChars == <<"A","B","C","D","E","F","G","H","I","J","K","L","M",
                "N","O","P","Q","R","S","T","U","V","W","X","Y","Z">>
LowerChars == <<"a","b","c","d","e","f","g","h","i","j","k","l","m",
                "n","o","p","q","r","s","t","u","v","w","x","y","z">>
DigitChars == <<"0","1","2","3","4","5","6","7","8","9">>

DigitSet == {DigitChars[i] : i \in 1..10}
DigitValOf == [c \in DigitSet |-> (CHOOSE i \in 1..10 : DigitChars[i] = c) - 1]
UpperSet == {UpperChars[i] : i \in 1..26}
LowerSet == {LowerChars[i] : i \in 1..26}
LowerOf == [c \in UpperSet |-> LowerChars[CHOOSE k \in 1..26 : UpperChars[k] = c]]
UpperOf == [c \in LowerSet |-> UpperChars[CHOOSE k \in 1..26 : LowerChars[k] = c]]

IsDigit(c) == c \in DigitSet
DigitVal(c) == DigitValOf[c]
IsSpace(c) == c \in {" ", "\t", "\n"}

toLowerCase(s) == [i \in 1..Len(s) |-> IF s[i] \in UpperSet THEN LowerOf[s[i]] ELSE s[i]]

trim(s) ==
    IF \A i \in 1..Len(s) : IsSpace(s[i]) THEN <<>>
    ELSE LET a == CHOOSE i \in 1..Len(s) :
                     ~IsSpace(s[i]) /\ \A k \in 1..(i-1) : IsSpace(s[k])
             b == CHOOSE i \in 1..Len(s) :
                     ~IsSpace(s[i]) /\ \A k \in (i+1)..Len(s) : IsSpace(s[k])
         IN SubSeq(s, a, b)

includes(s, c) == \E i \in 1..Len(s) : s[i] = c

\* w occurs in s at position i
HasAt(s, i, w) ==
    /\ i >= 1
    /\ i + Len(w) - 1 <= Len(s)
    /\ \A k \in 1..Len(w) : s[i + k - 1] = w[k]

startsWith(s, w) == HasAt(s, 1, w)

\* \s* from position i: the position after the spaces
SkipSpaces(s, i) ==
    CHOOSE j \in i..(Len(s) + 1) :
        /\ \A k \in i..(j-1) : IsSpace(s[k])
        /\ (j = Len(s) + 1 \/ ~IsSpace(s[j]))

\* \d+ from position i: the position after the digits
SkipDigits(s, i) ==
    CHOOSE j \in i..(Len(s) + 1) :
        /\ \A k \in i..(j-1) : IsDigit(s[k])
        /\ (j = Len(s) + 1 \/ ~IsDigit(s[j]))

RECURSIVE parseInt(_)
\* parseInt(digits, 10) of a sequence of decimal digits
parseInt(ds) ==
    IF ds = <<>> THEN 0
    ELSE 10 * parseInt(SubSeq(ds, 1, Len(ds) - 1)) + DigitVal(ds[Len(ds)])

---------------------------------------------------------------------------
(* Date *)

MsPerMinute == 60 * 1000
MsPerHour == 60 * 60 * 1000
MsPerDay == 24 * 60 * 60 * 1000

\* the largest time value of a Date is 8.64e15 ms: 10^8 days either side of the epoch
MaxDateDay == 10000 * 10000

InvalidDate == [t |-> "date", valid |-> FALSE, day |-> 0, ms |-> 0]

\* new Date(time value): the value carried into days, and TimeClip
MkDate(day, ms) ==
    LET d == day + (ms \div MsPerDay)
        m == ms % MsPerDay
    IN IF \/ d < -MaxDateDay
          \/ d > MaxDateDay
          \/ (d = MaxDateDay /\ m > 0)
       THEN InvalidDate
       ELSE [t |-> "date", valid |-> TRUE, day |-> d, ms |-> m]

\* amount * unitMs as days and milliseconds (unitMs divides a day or is whole days)
Product(amount, unitMs) ==
    IF unitMs >= MsPerDay
    THEN [day |-> amount * (unitMs \div MsPerDay), ms |-> 0]
    ELSE [day |-> amount \div (MsPerDay \div unitMs),
          ms |-> (amount % (MsPerDay \div unitMs)) * unitMs]

\* new Date(d.getTime() + amount * unitMs)
AddMs(d, amount, unitMs) ==
    IF ~d.valid THEN InvalidDate
    ELSE LET p == Product(amount, unitMs)
         IN MkDate(d.day + p.day, d.ms + p.ms)

\* the local calendar day and the local time of day of d, offset minutes east of UTC
LocalDay(d, offset) == d.day + ((d.ms + offset * MsPerMinute) \div MsPerDay)
LocalMs(d, offset) == (d.ms + offset * MsPerMinute) % MsPerDay

\* the Date whose local fields are day, ms (ms may exceed a day: the fields carry)
FromLocal(day, ms, offset) == MkDate(day, ms - offset * MsPerMinute)

\* (a slip: 24 hours are added to the time value of the UTC day's start)
setDatePlusOneUtc(d, offset) ==
    IF ~d.valid THEN InvalidDate
    ELSE FromLocal(d.day + 1, LocalMs(d, offset), offset)

\* d.setDate(d.getDate() + 1)
setDatePlusOne(d, offset) ==
    IF ~d.valid THEN InvalidDate
    ELSE FromLocal(LocalDay(d, offset) + 1, LocalMs(d, offset), offset)

\* d.setHours(hours, minutes, 0, 0)
setHours(d, hours, minutes, offset) ==
    IF ~d.valid THEN InvalidDate
    ELSE FromLocal(LocalDay(d, offset), hours * MsPerHour + minutes * MsPerMinute, offset)

\* days from 1970-01-01 to the civil date year-month-day (proleptic Gregorian)
DaysFromCivil(year, month, day) ==
    LET y == IF month <= 2 THEN year - 1 ELSE year
        era == y \div 400
        yoe == y - era * 400
        mp == (month + 9) % 12
        doy == ((153 * mp + 2) \div 5) + day - 1
        doe == yoe * 365 + (yoe \div 4) - (yoe \div 100) + doy
    IN era * 146097 + doe - 719468

\* YYYY-MM-DD, the date-only form of the ISO format
IsIsoDate(s) ==
    /\ Len(s) = 10
    /\ \A i \in {1, 2, 3, 4, 6, 7, 9, 10} : IsDigit(s[i])
    /\ s[5] = "-" /\ s[8] = "-"
    /\ parseInt(SubSeq(s, 6, 7)) \in 1..12
    /\ parseInt(SubSeq(s, 9, 10)) \in 1..31

\* new Date(input) for a string.  The date-only ISO form is UTC midnight of that
\* date.  A string with no digit is no date in any engine.  What is made of any
\* other string is up to the engine: engineDate is its answer (possibly Invalid).
DateParse(s, engineDate) ==
    IF IsIsoDate(s)
    THEN MkDate(DaysFromCivil(parseInt(SubSeq(s, 1, 4)),
                              parseInt(SubSeq(s, 6, 7)),
                              parseInt(SubSeq(s, 9, 10))), 0)
    ELSE IF \A i \in 1..Len(s) : ~IsDigit(s[i]) THEN InvalidDate
    ELSE engineDate

\* new Date(input) for any value
NewDate(input, engineDate) ==
    CASE input.t = "string" -> DateParse(input.s, engineDate)
      [] input.t = "number" -> MkDate(0, input.n)
      [] OTHER -> InvalidDate

---------------------------------------------------------------------------
(* parseRemindAt *)

Thrown(e) == [t |-> "thrown", error |-> e]

\* the unit table of the relative rule, in the order of the pattern's alternation
UnitTable ==
    << [name |-> <<"m","i","n","u","t","e">>, ms |-> 60 * 1000],
       [name |-> <<"h","o","u","r">>,         ms |-> 60 * 60 * 1000],
       [name |-> <<"d","a","y">>,             ms |-> 24 * 60 * 60 * 1000],
       [name |-> <<"w","e","e","k">>,         ms |-> 7 * 24 * 60 * 60 * 1000] >>

NoMatch == [matched |-> FALSE]

\* lower.match(/^in\s+(\d+)\s+(minute|hour|day|week)s?$/)
inMatch(lower) ==
    LET n == Len(lower)
        b == SkipSpaces(lower, 3)
        c == SkipDigits(lower, b)
        d == SkipSpaces(lower, c)
        units == {u \in 1..Len(UnitTable) : HasAt(lower, d, UnitTable[u].name)}
    IN IF /\ startsWith(lower, <<"i","n">>)
          /\ b > 3 /\ c > b /\ d > c
          /\ units # {}
       THEN LET u == CHOOSE x \in units : \A y \in units : x <= y
                e == d + Len(UnitTable[u].name)
                f == IF e <= n /\ lower[e] = "s" THEN e + 1 ELSE e
            IN IF f = n + 1
               THEN [matched |-> TRUE, amount |-> SubSeq(lower, b, c - 1), unit |-> u]
               ELSE NoMatch
       ELSE NoMatch

\* (\d{1,2})(?::(\d{2}))?\s*(am|pm)? matched at position p of s (s[p] is a digit):
\* the groups and the position after the match
ClockAt(s, p) ==
    LET q == IF p + 1 <= Len(s) /\ IsDigit(s[p + 1]) THEN p + 2 ELSE p + 1
        hasMin == /\ q + 2 <= Len(s)
                  /\ s[q] = ":" /\ IsDigit(s[q + 1]) /\ IsDigit(s[q + 2])
        r == IF hasMin THEN q + 3 ELSE q
        w == SkipSpaces(s, r)
        ampm == IF HasAt(s, w, <<"a","m">>) THEN "am"
                ELSE IF HasAt(s, w, <<"p","m">>) THEN "pm"
                ELSE "none"
    IN [matched |-> TRUE,
        hours |-> SubSeq(s, p, q - 1),
        minutes |-> IF hasMin THEN SubSeq(s, q + 1, q + 2) ELSE <<>>,
        ampm |-> ampm,
        end |-> IF ampm = "none" THEN r ELSE w + 2,
        endSpaces |-> w]

\* lower.match(/(\d{1,2})(?::(\d{2}))?\s*(am|pm)?/): the leftmost match
timeMatch(lower) ==
    IF \A i \in 1..Len(lower) : ~IsDigit(lower[i]) THEN NoMatch
    ELSE ClockAt(lower, CHOOSE i \in 1..Len(lower) :
                            IsDigit(lower[i]) /\ \A k \in 1..(i-1) : ~IsDigit(lower[k]))

\* lower.match(/^(?:today\s+)?(?:at\s+)?(\d{1,2})(?::(\d{2}))?\s*(am|pm)?$/)
todayMatch(lower) ==
    LET n == Len(lower)
        a0 == SkipSpaces(lower, 6)
        a == IF startsWith(lower, <<"t","o","d","a","y">>) /\ a0 > 6 THEN a0 ELSE 1
        b0 == SkipSpaces(lower, a + 2)
        b == IF HasAt(lower, a, <<"a","t">>) /\ b0 > a + 2 THEN b0 ELSE a
    IN IF b <= n /\ IsDigit(lower[b])
       THEN LET m == ClockAt(lower, b)
            IN IF m.ampm # "none" /\ m.end = n + 1 THEN m
               ELSE IF m.endSpaces = n + 1 THEN [m EXCEPT !.ampm = "none"]
               ELSE NoMatch
       ELSE NoMatch

\* (a slip in the conversion: the comparison of the pm case is turned round)
To24Flipped(hours, ampm) ==
    IF ampm = "pm" /\ hours > 12 THEN hours + 12
    ELSE IF ampm = "am" /\ hours = 12 THEN 0
    ELSE hours

\* the conversion without its midnight case
To24NoMidnight(hours, ampm) ==
    IF ampm = "pm" /\ hours < 12 THEN hours + 12 ELSE hours

\* the 12-hour conversion both clock rules apply
To24(hours, ampm) ==
    IF ampm = "pm" /\ hours < 12 THEN hours + 12
    ELSE IF ampm = "am" /\ hours = 12 THEN 0
    ELSE hours

\* (a slip in the unit table: every unit counted as an hour)
RelativeRuleHours(m, nowDate) ==
    AddMs(nowDate, parseInt(m.amount), MsPerHour)

\* the relative rule: new Date(now.getTime() + amount * ms)
RelativeRule(m, nowDate) ==
    AddMs(nowDate, parseInt(m.amount), UnitTable[m.unit].ms)

\* the tomorrow rule
TomorrowRule(lower, nowDate, offset) ==
    LET tomorrow == setDatePlusOne(nowDate, offset)
        m == timeMatch(lower)
    IN IF m.matched
       THEN setHours(tomorrow,
                     To24(parseInt(m.hours), m.ampm),
                     IF m.minutes # <<>> THEN parseInt(m.minutes) ELSE 0,
                     offset)
       ELSE setHours(tomorrow, 9, 0, offset)

\* the today rule
TodayRule(m, nowDate, offset) ==
    setHours(nowDate,
             To24(parseInt(m.hours), m.ampm),
             IF m.minutes # <<>> THEN parseInt(m.minutes) ELSE 0,
             offset)

\* the absolute rule taking every valid date, with a hyphen or without
parseRemindAtAnyDate(input, nowDate, offset, engineDate) ==
    LET isoDate == NewDate(input, engineDate)
    IN IF isoDate.valid /\ input.t # "string" THEN Thrown("TypeError")
       ELSE IF isoDate.valid THEN isoDate
       ELSE IF input.t # "string" THEN Thrown("TypeError")
       ELSE LET lower == trim(toLowerCase(input.s))
            IN IF inMatch(lower).matched
               THEN RelativeRule(inMatch(lower), nowDate)
               ELSE IF startsWith(lower, <<"t","o","m","o","r","r","o","w">>)
               THEN TomorrowRule(lower, nowDate, offset)
               ELSE IF todayMatch(lower).matched
               THEN TodayRule(todayMatch(lower), nowDate, offset)
               ELSE Undefined

\* parseRemindAt(input) with new Date() = nowDate: a Date, Undefined, or the
\* TypeError thrown when input is no string
parseRemindAt(input, nowDate, offset, engineDate) ==
    LET isoDate == NewDate(input, engineDate)
    IN IF isoDate.valid /\ input.t # "string" THEN Thrown("TypeError")
       ELSE IF isoDate.valid /\ includes(input.s, "-") THEN isoDate
       ELSE IF input.t # "string" THEN Thrown("TypeError")
       ELSE LET lower == trim(toLowerCase(input.s))
            IN IF inMatch(lower).matched
               THEN RelativeRule(inMatch(lower), nowDate)
               ELSE IF startsWith(lower, <<"t","o","m","o","r","r","o","w">>)
               THEN TomorrowRule(lower, nowDate, offset)
               ELSE IF todayMatch(lower).matched
               THEN TodayRule(todayMatch(lower), nowDate, offset)
               ELSE Undefined

---------------------------------------------------------------------------
(* The remindAt arguments a caller composes *)

\* amounts of the relative form: 0..MaxAmount, one beyond 59, and LargeAmount
MaxAmount == 2
LargeAmount == 99999999
\* new Date() is drawn from NowDays consecutive days starting at FirstNowDay
FirstNowDay == 19792
NowDays == 1

RECURSIVE ToDigits(_)
ToDigits(n) ==
    IF n < 10 THEN <<DigitChars[n + 1]>>
    ELSE ToDigits(n \div 10) \o <<DigitChars[(n % 10) + 1]>>

TwoDigits(n) == <<DigitChars[(n \div 10) + 1], DigitChars[(n % 10) + 1]>>

toUpperCase(s) == [i \in 1..Len(s) |-> IF s[i] \in LowerSet THEN UpperOf[s[i]] ELSE s[i]]

Styled(s, style) ==
    CASE style = "upper" -> toUpperCase(s)
      [] style = "title" /\ s # <<>> -> toUpperCase(SubSeq(s, 1, 1)) \o SubSeq(s, 2, Len(s))
      [] OTHER -> s

\* how the relative form is written: its letter case, and whether it is padded
Styles == { [case |-> "lower", padded |-> FALSE], [case |-> "upper", padded |-> FALSE],
            [case |-> "title", padded |-> TRUE] }
Cases == {"lower", "title"}
Amounts == (0..MaxAmount) \cup {90, LargeAmount}

ClockHours == {1, 5, 9, 12, 23, 24}
ClockMinutes == {-1, 30, 75}       \* -1: no minutes written
Meridiems == {"none", "am", "pm"}
Clocks == {c \in [h : ClockHours, m : ClockMinutes, gap : BOOLEAN, ampm : Meridiems] :
              c.gap => c.ampm # "none"}

ClockText(c) ==
    ToDigits(c.h)
    \o (IF c.m >= 0 THEN <<":">> \o TwoDigits(c.m) ELSE <<>>)
    \o (IF c.gap /\ c.ampm # "none" THEN <<" ">> ELSE <<>>)
    \o (CASE c.ampm = "am" -> <<"a","m">> [] c.ampm = "pm" -> <<"p","m">> [] OTHER -> <<>>)

TomorrowWord == <<"t","o","m","o","r","r","o","w">>
TodayPrefixes == { <<>>, <<"t","o","d","a","y"," ">>, <<"a","t"," ">>,
                   <<"t","o","d","a","y"," ","a","t"," ">> }
TomorrowFillers == { <<" ">>, <<" ","a","t"," ">> }
TomorrowTails == { <<>>, <<" ","m","o","r","n","i","n","g">> }
IsoTexts == { <<"2","0","2","4","-","0","3","-","1","1">>,
              <<"1","9","9","9","-","1","2","-","3","1">> }
JunkTexts == { <<"n","o","t"," ","a"," ","t","i","m","e">>, <<>>, <<" ">>,
               <<"s","o","o","n">>, <<"i","n"," ","a"," ","b","i","t">>, <<"9","3","0">> }

RelShapes == [kind : {"rel"}, style : Styles,
              n : Amounts, unit : 1..Len(UnitTable), plural : BOOLEAN]
TomShapes == [kind : {"tom"}, filler : TomorrowFillers, clock : Clocks]
TomBareShapes == [kind : {"tomBare"}, case : Cases, tail : TomorrowTails]
TomDateShapes == [kind : {"tomDate"}, date : IsoTexts]
TodayShapes == [kind : {"today"}, prefix : TodayPrefixes, clock : Clocks]
IsoShapes == [kind : {"iso"}, date : IsoTexts]
JunkShapes == [kind : {"junk"}, text : JunkTexts]
OtherShapes == [kind : {"missing", "number"}]

Shapes == RelShapes \cup TomShapes \cup TomBareShapes \cup TomDateShapes
          \cup TodayShapes \cup IsoShapes \cup JunkShapes \cup OtherShapes

Pad(s, padded) == IF padded THEN <<" ">> \o s \o <<" ", "\t">> ELSE s

\* the value passed as args.remindAt
RemindAtArg(sh) ==
    CASE sh.kind = "rel" ->
            Str(Pad(Styled(<<"i","n"," ">> \o ToDigits(sh.n) \o <<" ">>
                           \o UnitTable[sh.unit].name
                           \o (IF sh.plural THEN <<"s">> ELSE <<>>), sh.style.case),
                    sh.style.padded))
      [] sh.kind = "tom" -> Str(TomorrowWord \o sh.filler \o ClockText(sh.clock))
      [] sh.kind = "tomBare" -> Str(Styled(TomorrowWord \o sh.tail, sh.case))
      [] sh.kind = "tomDate" -> Str(TomorrowWord \o <<" ">> \o sh.date)
      [] sh.kind = "today" -> Str(sh.prefix \o ClockText(sh.clock))
      [] sh.kind = "iso" -> Str(sh.date)
      [] sh.kind = "junk" -> Str(sh.text)
      [] sh.kind = "number" -> Num(5)
      [] OTHER -> Undefined

\* the instants new Date() may return
NowDates ==
    { MkDate(FirstNowDay + i, ms) :
        i \in 0..(NowDays - 1),
        ms \in {0, 15 * MsPerHour, MsPerDay - 1} }

TzOffsets == {-300, 120}

\* what an engine may make of a non-ISO string that holds digits
EngineDates == {InvalidDate, MkDate(11443, 0)}

---------------------------------------------------------------------------
(* executeRemindersTool *)

None == [t |-> "none"]

\* JavaScript truthiness of an argument value
Truthy(v) ==
    CASE v.t = "string" -> v.s # <<>>
      [] v.t = "number" -> v.n # 0
      [] v.t = "boolean" -> v.b
      [] v.t \in {"array", "object"} -> TRUE
      [] OTHER -> FALSE

Success(data) == [t |-> "ToolResult", success |-> TRUE, data |-> data]
Failure(text, arg) == [t |-> "ToolResult", success |-> FALSE, error |-> [text |-> text, arg |-> arg]]
Rejected(e) == [t |-> "rejected", error |-> e]

\* d.toISOString(): the instant as an ISO string; a RangeError for the Invalid Date
toISOString(d) ==
    IF d.valid THEN [t |-> "isoString", day |-> d.day, ms |-> d.ms] ELSE Thrown("RangeError")

\* error instanceof Error ? error.message : 'Unknown error'
ErrorText(error) == IF error.isError THEN error.message ELSE "Unknown error"

ApiErrors == { [isError |-> TRUE, message |-> "Network error"], [isError |-> FALSE] }

ToolNames == {"listReminders", "createReminder", "completeReminder", "deleteReminder",
              "updateReminder", "snoozeReminder"}

ChatA == Str(<<"1","0","1">>)
ChatB == Str(<<"2","0","2">>)
Descriptions == {Undefined, Str(<<>>), Str(<<"c","a","l","l">>)}

\* the states of global.telebiz.reminders
LoadedReminders ==
    [isLoading |-> FALSE, error |-> Undefined,
     reminders |-> << [id |-> 1, chat_id |-> ChatA], [id |-> 2, chat_id |-> ChatB],
                      [id |-> 3, chat_id |-> ChatA] >>]

RemindersStates ==
    { LoadedReminders,
      [isLoading |-> TRUE, error |-> Str(<<"5","0","0">>),
       reminders |-> << [id |-> 1, chat_id |-> ChatA] >>],
      [isLoading |-> FALSE, error |-> Str(<<"5","0","0">>), reminders |-> <<>>],
      [isLoading |-> TRUE, error |-> Undefined, reminders |-> <<>>],
      [isLoading |-> FALSE, error |-> Undefined, reminders |-> <<>>],
      [isLoading |-> FALSE, error |-> Str(<<"5","0","0">>),
       reminders |-> << [id |-> 2, chat_id |-> ChatB] >>] }

summarizeReminder(r) == [id |-> r.id, chatId |-> r.chat_id]

RECURSIVE filter(_, _)
\* reminders.filter((r) => r.chat_id === chatId)
filter(rs, chatId) ==
    IF rs = <<>> THEN <<>>
    ELSE IF Head(rs).chat_id = chatId THEN <<Head(rs)>> \o filter(Tail(rs), chatId)
    ELSE filter(Tail(rs), chatId)

\* the error state looked at before the loading state
executeListRemindersErrorFirst(chatId, remindersState) ==
    IF Truthy(remindersState.error)
    THEN Failure("Failed to load reminders: ", remindersState.error)
    ELSE IF remindersState.isLoading
    THEN Success([reminders |-> <<>>, count |-> 0, note |-> "still loading"])
    ELSE Success([reminders |-> [i \in 1..Len(remindersState.reminders) |->
                                    summarizeReminder(remindersState.reminders[i])],
                  count |-> Len(remindersState.reminders)])

executeListReminders(chatId, remindersState) ==
    IF remindersState.isLoading
    THEN Success([reminders |-> <<>>, count |-> 0, note |-> "still loading"])
    ELSE IF Truthy(remindersState.error)
    THEN Failure("Failed to load reminders: ", remindersState.error)
    ELSE LET filtered == IF Truthy(chatId)
                         THEN filter(remindersState.reminders, chatId)
                         ELSE remindersState.reminders
         IN Success([reminders |-> [i \in 1..Len(filtered) |-> summarizeReminder(filtered[i])],
                     count |-> Len(filtered)])

\* (a slip: the message does not quote the argument)
CouldNotParseBare(args) == Failure("Could not parse reminder time", Undefined)

\* the error text of an unparseable remindAt: it quotes args.remindAt
CouldNotParse(args) == Failure("Could not parse reminder time: ", args.remindAt)

\* the call ends: the promise settles with r
Settle(r) ==
    /\ result' = r
    /\ pc' = "done"

\* the reminder API call is issued and awaited
Issue(method, payload) ==
    /\ apiCalls' = Append(apiCalls, [method |-> method, payload |-> payload])
    /\ pc' = "awaitApi"
    /\ UNCHANGED result

\* executeCreateReminder up to its await
executeCreateReminder(args) ==
    LET parsed == parseRemindAt(args.remindAt, now', tz, legacy')
    IN /\ updateData' = None
       /\ IF parsed.t = "thrown"
          THEN remindAt' = None /\ Settle(Rejected(parsed.error)) /\ UNCHANGED apiCalls
          ELSE /\ remindAt' = parsed
               /\ IF parsed.t = "undefined"
                  THEN Settle(CouldNotParse(args)) /\ UNCHANGED apiCalls
                  ELSE IF toISOString(parsed).t = "thrown"
                  THEN /\ Settle(Failure("Failed to create reminder: ", "Invalid time value"))
                       /\ UNCHANGED apiCalls
                  ELSE Issue("createReminder",
                             [chat_id |-> args.chatId, description |-> args.description,
                              remind_at |-> toISOString(parsed)])

\* executeUpdateReminder up to its await
executeUpdateReminder(args) ==
    LET withDescription == IF Truthy(args.description)
                           THEN [description |-> args.description, remind_at |-> None]
                           ELSE [description |-> None, remind_at |-> None]
        parsed == parseRemindAt(args.remindAt, now', tz, legacy')
    IN IF ~Truthy(args.remindAt)
       THEN /\ remindAt' = None
            /\ updateData' = withDescription
            /\ Issue("updateReminder", [reminderId |-> args.reminderId, data |-> withDescription])
       ELSE IF parsed.t = "thrown"
       THEN /\ remindAt' = None
            /\ updateData' = withDescription
            /\ Settle(Rejected(parsed.error)) /\ UNCHANGED apiCalls
       ELSE /\ remindAt' = parsed
            /\ IF parsed.t = "undefined"
               THEN /\ updateData' = withDescription
                    /\ Settle(CouldNotParse(args)) /\ UNCHANGED apiCalls
               ELSE IF toISOString(parsed).t = "thrown"
               THEN /\ updateData' = withDescription
                    /\ Settle(Rejected("RangeError")) /\ UNCHANGED apiCalls
               ELSE /\ updateData' = [withDescription EXCEPT !.remind_at = toISOString(parsed)]
                    /\ Issue("updateReminder",
                             [reminderId |-> args.reminderId,
                              data |-> [withDescription EXCEPT !.remind_at = toISOString(parsed)]])

\* executeCompleteReminder / executeDeleteReminder up to their await
executeCompleteReminder(reminderId) ==
    /\ remindAt' = None /\ updateData' = None
    /\ Issue("completeReminder", [reminderId |-> reminderId])

executeDeleteReminder(reminderId) ==
    /\ remindAt' = None /\ updateData' = None
    /\ Issue("deleteReminder", [reminderId |-> reminderId])

\* a string with a digit that is not in the ISO form is left to the engine's
\* legacy date parser
EngineChoices(arg) ==
    IF arg.t = "string" /\ (\E i \in 1..Len(arg.s) : IsDigit(arg.s[i])) /\ ~IsIsoDate(arg.s)
    THEN EngineDates ELSE {InvalidDate}

\* executeRemindersTool(toolName, args), run to its first await or to its end
Invoke(toolName, sh, description) ==
    LET args == [chatId |-> ChatA, description |-> description,
                 remindAt |-> RemindAtArg(sh), reminderId |-> 1]
    IN /\ pc = "idle"
       /\ call' = [toolName |-> toolName, args |-> args]
       /\ shape' = sh
       /\ now' \in NowDates
       /\ legacy' \in EngineChoices(args.remindAt)
       /\ refreshes' = 0
       /\ CASE toolName = "createReminder" -> executeCreateReminder(args)
            [] toolName = "updateReminder" -> executeUpdateReminder(args)
            [] toolName = "completeReminder" -> executeCompleteReminder(args.reminderId)
            [] toolName = "deleteReminder" -> executeDeleteReminder(args.reminderId)
            [] toolName = "listReminders" ->
                   /\ remindAt' = None /\ updateData' = None /\ UNCHANGED apiCalls
                   /\ Settle(executeListReminders(args.chatId, global))
            [] OTHER ->
                   /\ remindAt' = None /\ updateData' = None /\ UNCHANGED apiCalls
                   /\ Settle(Failure("Unknown reminders tool: ", toolName))
       /\ UNCHANGED <<tz, global>>

\* a tool whose arguments carry a remindAt
InvokeTimed ==
    \E toolName \in {"createReminder", "updateReminder"}, sh \in Shapes :
        \E description \in (IF sh.kind \in {"junk", "missing", "number"}
                            THEN Descriptions ELSE {Str(<<"c","a","l","l">>)}) :
            Invoke(toolName, sh, description)

\* a tool that takes no remindAt
InvokeOther ==
    \E toolName \in ToolNames \ {"createReminder", "updateReminder"} :
        Invoke(toolName, [kind |-> "missing"], Undefined)

\* the awaited reminder API call resolves: refresh, then the success result
ApiResolve ==
    /\ pc = "awaitApi"
    /\ refreshes' = refreshes + 1
    /\ LET c == apiCalls[Len(apiCalls)]
       IN Settle(Success([method |-> c.method, payload |-> c.payload]))
    /\ UNCHANGED <<call, shape, now, tz, legacy, remindAt, updateData, apiCalls, global>>

\* a rejected call that refreshes the reminders all the same
ApiRejectRefreshed ==
    /\ pc = "awaitApi"
    /\ refreshes' = refreshes + 1
    /\ \E error \in ApiErrors :
          Settle(Failure("Failed: ", ErrorText(error)))
    /\ UNCHANGED <<call, shape, now, tz, legacy, remindAt, updateData, apiCalls, global>>

\* the awaited reminder API call rejects: caught, turned into a failure result
ApiReject ==
    /\ pc = "awaitApi"
    /\ \E error \in ApiErrors :
          Settle(Failure("Failed: ", ErrorText(error)))
    /\ UNCHANGED <<call, shape, now, tz, legacy, remindAt, updateData, apiCalls, refreshes,
                   global>>

\* the caller takes the result; the next tool call may start
Return ==
    /\ pc = "done"
    /\ pc' = "idle"
    /\ call' = None /\ shape' = None /\ remindAt' = None /\ updateData' = None
    /\ result' = None /\ apiCalls' = <<>> /\ refreshes' = 0
    /\ now' = None /\ legacy' = None
    /\ UNCHANGED <<tz, global>>

\* the chatId argument of listReminders: left out, empty, or a chat
ListChatIds == {Undefined, Str(<<>>), ChatA, ChatB, Str(<<"3","0","3">>)}

\* executeRemindersTool('listReminders', { chatId })
InvokeList ==
    /\ pc = "idle"
    /\ \E chatId \in ListChatIds :
          /\ call' = [toolName |-> "listReminders",
                      args |-> [chatId |-> chatId, description |-> Undefined,
                                remindAt |-> Undefined, reminderId |-> 1]]
          /\ Settle(executeListReminders(chatId, global))
    /\ shape' = [kind |-> "missing"]
    /\ now' \in NowDates
    /\ legacy' = InvalidDate
    /\ refreshes' = 0
    /\ remindAt' = None /\ updateData' = None
    /\ UNCHANGED <<apiCalls, tz, global>>

\* no call in progress, in any state of the reminders
ListInit ==
    /\ pc = "idle"
    /\ call = None /\ shape = None /\ remindAt = None /\ updateData = None
    /\ result = None /\ apiCalls = <<>> /\ refreshes = 0
    /\ now = None /\ legacy = None
    /\ tz \in TzOffsets
    /\ global \in RemindersStates

RemInit ==
    /\ pc = "idle"
    /\ call = None /\ shape = None /\ remindAt = None /\ updateData = None
    /\ result = None /\ apiCalls = <<>> /\ refreshes = 0
    /\ now = None /\ legacy = None
    /\ tz \in TzOffsets
    /\ global = LoadedReminders

---------------------------------------------------------------------------
(* forms.ts: the form field builder *)

\* field and property names, as text
N ==
    [name |-> <<"n","a","m","e">>,
     phone |-> <<"p","h","o","n","e">>,
     email |-> <<"e","m","a","i","l">>,
     website |-> <<"w","e","b","s","i","t","e">>,
     industry |-> <<"i","n","d","u","s","t","r","y">>,
     title |-> <<"t","i","t","l","e">>,
     Title |-> <<"T","i","t","l","e">>,
     amount |-> <<"a","m","o","u","n","t">>,
     closeDate |-> <<"c","l","o","s","e","D","a","t","e">>,
     startDate |-> <<"s","t","a","r","t","D","a","t","e">>,
     duration |-> <<"d","u","r","a","t","i","o","n">>,
     body |-> <<"b","o","d","y">>,
     subject |-> <<"s","u","b","j","e","c","t">>,
     date |-> <<"d","a","t","e">>,
     taskType |-> <<"t","a","s","k","T","y","p","e">>,
     priority |-> <<"p","r","i","o","r","i","t","y">>,
     pipeline |-> <<"p","i","p","e","l","i","n","e">>,
     stage |-> <<"s","t","a","g","e">>,
     labels |-> <<"l","a","b","e","l","s">>,
     owner |-> <<"o","w","n","e","r">>]

NoName == <<>>       \* dependsOn left out

\* field values: a string, or a sequence of strings (multiselect)
S(x) == [k |-> "str", v |-> x]
A(xs) == [k |-> "arr", v |-> xs]

\* options: none, a list, or a list per value of the parent field
NoOptions == [k |-> "none"]
ListOptions(items) == [k |-> "list", items |-> items]
RecordOptions(map) == [k |-> "record", map |-> map]
Option(v) == [label |-> v, value |-> v]

FormTypes == {"text", "number", "date", "select", "textarea", "multiselect"}

mapPropertyTypeToFormType(propertyType) ==
    CASE propertyType \in {"text", "email", "phone", "url", "boolean", "user"} -> "text"
      [] propertyType = "textarea" -> "textarea"
      [] propertyType \in {"number", "currency"} -> "number"
      [] propertyType \in {"date", "datetime"} -> "date"
      [] propertyType \in {"select", "status", "stage", "enum"} -> "select"
      [] propertyType \in {"multiselect", "set"} -> "multiselect"
      [] OTHER -> "text"

\* toLocalISOString(new Date()): the current time as text
NowText == S("now")

getDefaultValue(propertyType) ==
    CASE propertyType \in {"date", "datetime"} -> NowText
      [] propertyType \in {"number", "currency"} -> S("0")
      [] propertyType = "multiselect" -> A(<<>>)
      [] OTHER -> S("")

titleFieldNames == {N.title, N.name, N.subject}

isTitleField(field) ==
    field.name \in titleFieldNames \/ toLowerCase(field.name) \in titleFieldNames

typePriority(type) ==
    CASE type = "select" -> 2
      [] type = "multiselect" -> 3
      [] type = "text" -> 4
      [] type = "number" -> 5
      [] type = "date" -> 6
      [] type = "textarea" -> 7
      [] OTHER -> 99

InsertAt(seq, i, x) == SubSeq(seq, 1, i) \o <<x>> \o SubSeq(seq, i + 1, Len(seq))

RECURSIVE sortByPriorityUnstable(_)
\* a sort that puts a field before the earlier fields of its own priority
sortByPriorityUnstable(fields) ==
    IF fields = <<>> THEN <<>>
    ELSE LET front == sortByPriorityUnstable(SubSeq(fields, 1, Len(fields) - 1))
             last == fields[Len(fields)]
             at == Cardinality({i \in 1..Len(front) :
                                  typePriority(front[i].type) < typePriority(last.type)})
         IN InsertAt(front, at, last)

RECURSIVE sortByPriority(_)
\* independent.sort((a, b) => priorityA - priorityB): a stable sort
sortByPriority(fields) ==
    IF fields = <<>> THEN <<>>
    ELSE LET front == sortByPriority(SubSeq(fields, 1, Len(fields) - 1))
             last == fields[Len(fields)]
             at == Cardinality({i \in 1..Len(front) :
                                  typePriority(front[i].type) <= typePriority(last.type)})
         IN InsertAt(front, at, last)

\* sorted.findIndex((f) => f.name === name), counted from 1; 0 when there is none
findIndex(sorted, name) ==
    IF \E i \in 1..Len(sorted) : sorted[i].name = name
    THEN CHOOSE i \in 1..Len(sorted) :
            sorted[i].name = name /\ \A k \in 1..(i-1) : sorted[k].name # name
    ELSE 0

\* every dependent field spliced after its parent and pushed as well
insertDependentsTwice(sorted, dependent) ==
    LET After(name) == LET IsChild(f) == f.dependsOn = name IN SelectSeq(dependent, IsChild)
        RECURSIVE Spliced(_)
        Spliced(fields) == IF fields = <<>> THEN <<>>
                           ELSE <<Head(fields)>> \o After(Head(fields).name) \o Spliced(Tail(fields))
    IN Spliced(sorted) \o dependent

RECURSIVE insertDependentsFound(_, _)
\* dependent.forEach without the push of a field whose parent is not found
insertDependentsFound(sorted, dependent) ==
    IF dependent = <<>> THEN sorted
    ELSE LET depField == Head(dependent)
             parentIndex == findIndex(sorted, depField.dependsOn)
         IN insertDependentsFound(IF parentIndex # 0
                                  THEN InsertAt(sorted, parentIndex, depField)
                                  ELSE sorted,
                                  Tail(dependent))

RECURSIVE insertDependents(_, _)
\* dependent.forEach: splice after the parent, or push
insertDependents(sorted, dependent) ==
    IF dependent = <<>> THEN sorted
    ELSE LET depField == Head(dependent)
             parentIndex == findIndex(sorted, depField.dependsOn)
         IN insertDependents(IF parentIndex # 0
                             THEN InsertAt(sorted, parentIndex, depField)
                             ELSE Append(sorted, depField),
                             Tail(dependent))

sortFieldsByPriority(fields) ==
    LET IsTitle(f) == f.dependsOn = NoName /\ isTitleField(f)
        IsIndependent(f) == f.dependsOn = NoName /\ ~isTitleField(f)
        IsDependent(f) == f.dependsOn # NoName
        titleFields == SelectSeq(fields, IsTitle)
        independent == SelectSeq(fields, IsIndependent)
        dependent == SelectSeq(fields, IsDependent)
    IN insertDependents(titleFields \o sortByPriority(independent), dependent)

\* properties.find((p) => p.standardName === name), or Undefined
findProperty(properties, name) ==
    IF \E i \in 1..Len(properties) : properties[i].standardName = name
    THEN properties[CHOOSE i \in 1..Len(properties) :
                        /\ properties[i].standardName = name
                        /\ \A k \in 1..(i-1) : properties[k].standardName # name]
    ELSE Undefined

\* the options are a non-empty list, or a non-empty record
HasListOptions(options) == options.k = "list" /\ options.items # <<>>
HasRecordOptions(options) == options.k = "record" /\ DOMAIN options.map # {}

\* getPropertyType(property, provider) of fieldConfig.ts: the semantic type
getPropertyType(property, provider) == property.semantic

formatSnakeCaseLabel(label) == [formatted |-> label]

\* the field with the type of the table alone
FieldOfTableOnly(name, property, provider) ==
    LET propertyType == getPropertyType(property, provider)
        formType == mapPropertyTypeToFormType(propertyType)
        defaultValue ==
            IF formType = "select" /\ HasListOptions(property.options)
            THEN S(property.options.items[1].value)
            ELSE IF formType = "multiselect" THEN A(<<>>)
            ELSE getDefaultValue(propertyType)
    IN [name |-> name,
        providerLabel |-> formatSnakeCaseLabel(property.label),
        type |-> formType,
        options |-> property.options,
        dependsOn |-> property.dependsOn,
        value |-> defaultValue]

\* the field built for one property
FieldOf(name, property, provider) ==
    LET propertyType == getPropertyType(property, provider)
        formType ==
            IF property.type = "multiselect" \/ propertyType = "multiselect"
            THEN "multiselect"
            ELSE IF HasListOptions(property.options) \/ HasRecordOptions(property.options)
            THEN "select"
            ELSE mapPropertyTypeToFormType(propertyType)
        defaultValue ==
            IF formType = "select" /\ HasListOptions(property.options)
            THEN S(property.options.items[1].value)
            ELSE IF formType = "multiselect" THEN A(<<>>)
            ELSE getDefaultValue(propertyType)
    IN [name |-> name,
        providerLabel |-> formatSnakeCaseLabel(property.label),
        type |-> formType,
        options |-> property.options,
        dependsOn |-> property.dependsOn,
        value |-> defaultValue]

RECURSIVE mapFieldNamesKeepMissing(_, _, _)
\* a name with no property kept as an empty text field
mapFieldNamesKeepMissing(fieldNames, properties, provider) ==
    IF fieldNames = <<>> THEN <<>>
    ELSE LET property == findProperty(properties, Head(fieldNames))
             rest == mapFieldNamesKeepMissing(Tail(fieldNames), properties, provider)
         IN IF property = Undefined
            THEN <<[name |-> Head(fieldNames), providerLabel |-> Undefined, type |-> "text",
                    options |-> NoOptions, dependsOn |-> NoName, value |-> S("")]>> \o rest
            ELSE <<FieldOf(Head(fieldNames), property, provider)>> \o rest

RECURSIVE mapFieldNames(_, _, _)
\* fieldNames.map(...).filter(field !== undefined)
mapFieldNames(fieldNames, properties, provider) ==
    IF fieldNames = <<>> THEN <<>>
    ELSE LET property == findProperty(properties, Head(fieldNames))
             rest == mapFieldNames(Tail(fieldNames), properties, provider)
         IN IF property = Undefined THEN rest
            ELSE <<FieldOf(Head(fieldNames), property, provider)>> \o rest

buildFormFieldsFromProperties(fieldNames, properties, provider) ==
    sortFieldsByPriority(mapFieldNames(fieldNames, properties, provider))

\* a field of a static form
Template(type, name, value, options) ==
    [name |-> name, type |-> type, value |-> value, options |-> options,
     dependsOn |-> NoName, providerLabel |-> Undefined]

\* the static forms, by entity type
forms ==
    [contact |-> << Template("text", N.name, S(""), NoOptions),
                    Template("text", N.phone, S(""), NoOptions),
                    Template("text", N.email, S(""), NoOptions) >>,
     company |-> << Template("text", N.name, S(""), NoOptions),
                    Template("text", N.website, S(""), NoOptions) >>,
     deal |-> << Template("text", N.title, S(""), NoOptions),
                 Template("number", N.amount, S("0"), NoOptions),
                 Template("date", N.closeDate, NowText, NoOptions) >>,
     meeting |-> << Template("text", N.title, S(""), NoOptions),
                    Template("date", N.startDate, NowText, NoOptions),
                    Template("select", N.duration, S("15"),
                             ListOptions(<<Option("15"), Option("30"), Option("45"),
                                           Option("60"), Option("120")>>)) >>,
     note |-> << Template("textarea", N.body, S(""), NoOptions) >>,
     task |-> << Template("text", N.subject, S(""), NoOptions),
                 Template("date", N.date, NowText, NoOptions),
                 Template("textarea", N.body, S(""), NoOptions),
                 Template("select", N.taskType, S("TODO"),
                          ListOptions(<<Option("TODO"), Option("EMAIL"), Option("CALL")>>)),
                 Template("select", N.priority, S("NONE"),
                          ListOptions(<<Option("LOW"), Option("MEDIUM"), Option("HIGH"),
                                        Option("NONE")>>)) >>,
     organization |-> <<>>,
     page |-> << Template("text", N.title, S(""), NoOptions) >>]

EntityTypes == DOMAIN forms

\* MINIMAL_FIELDS of minimalFields.ts
MINIMAL_FIELDS ==
    [contact |-> <<N.name, N.email, N.phone>>,
     company |-> <<N.name, N.website, N.industry>>,
     deal |-> <<N.title, N.pipeline, N.stage>>,
     task |-> <<N.subject, N.date, N.taskType>>,
     meeting |-> <<N.title, N.startDate, N.duration>>,
     page |-> <<>>,
     note |-> <<>>,
     organization |-> <<>>]

getMinimalFieldsForEntity(entityType) == MINIMAL_FIELDS[entityType]

hasMinimalFields(entityType) == Len(MINIMAL_FIELDS[entityType]) > 0

---------------------------------------------------------------------------
(* fieldConfig.ts, useProviderProperty, util/notion: as the specification gives them *)

DynamicProviders == {"hubspot", "pipedrive"}

\* the canonical field names of each entity type with dynamic fields
PROVIDER_FIELDS ==
    [contact |-> <<N.name, N.email, N.phone>>,
     company |-> <<N.name, N.website, N.industry>>,
     deal |-> <<N.title, N.amount, N.pipeline, N.stage, N.closeDate, N.labels>>]

hasDynamicFields(provider, entityType) ==
    provider \in DynamicProviders /\ entityType \in DOMAIN PROVIDER_FIELDS

getFieldNamesForProvider(provider, entityType) == PROVIDER_FIELDS[entityType]

getPropertyLabel(properties, name) ==
    IF findProperty(properties, name) = Undefined THEN Undefined
    ELSE findProperty(properties, name).label

getPropertyOptions(properties, name) ==
    IF findProperty(properties, name) = Undefined THEN NoOptions
    ELSE findProperty(properties, name).options

\* the page id and the database id an entity id is made of
decodeEntityId(id) == <<id.pageId, id.databaseId>>

\* each property of the database becomes one field
convertNotionPropertiesToFormFields(entityProperties) ==
    [i \in 1..Len(entityProperties) |->
        [name |-> entityProperties[i].standardName,
         providerLabel |-> entityProperties[i].label,
         type |-> mapPropertyTypeToFormType(entityProperties[i].semantic),
         options |-> entityProperties[i].options,
         dependsOn |-> NoName,
         value |-> getDefaultValue(entityProperties[i].semantic)]]

---------------------------------------------------------------------------
(* ProviderEntityForm *)

\* properties.find((e) => e.id === id)?.properties || []
propertiesOf(properties, id) ==
    IF \E i \in 1..Len(properties) : properties[i].id = id
    THEN properties[CHOOSE i \in 1..Len(properties) :
                        properties[i].id = id /\ \A k \in 1..(i-1) : properties[k].id # id
                   ].properties
    ELSE <<>>

\* the static form with a field for every property of the provider added to it
StaticFieldsMerged(entityType, providerProps) ==
    forms[entityType] \o convertNotionPropertiesToFormFields(providerProps)

\* the static form of the entity type, enriched with the provider's labels and options
StaticFields(entityType, providerProps) ==
    LET Enrich(field) ==
            LET updatedField ==
                    [field EXCEPT !.providerLabel = getPropertyLabel(providerProps, field.name)]
                options == getPropertyOptions(providerProps, field.name)
            IN IF field.type \in {"select", "multiselect"} /\ HasListOptions(options)
               THEN [updatedField EXCEPT !.options = options]
               ELSE updatedField
        Shown(field) ==
            field.type \in {"select", "multiselect"} => HasListOptions(field.options)
        baseFields == forms[entityType]
    IN SelectSeq([i \in 1..Len(baseFields) |-> Enrich(baseFields[i])], Shown)

\* the formFields memo of EntityForm
FormFields(p) ==
    LET providerProps == propertiesOf(p.properties, p.entityType)
        dbId == IF p.entity # Undefined THEN decodeEntityId(p.entity.id)[2] ELSE p.databaseId
        entityProperties == propertiesOf(p.properties, dbId)
    IN IF p.entityType = "page" /\ Len(entityProperties) > 0
       THEN convertNotionPropertiesToFormFields(entityProperties)
       ELSE IF hasDynamicFields(p.provider, p.entityType)
       THEN buildFormFieldsFromProperties(
                getFieldNamesForProvider(p.provider, p.entityType), providerProps, p.provider)
       ELSE IF p.entityType \notin DOMAIN forms THEN <<>>
       ELSE StaticFields(p.entityType, providerProps)

FieldNamesOf(fields) == {fields[i].name : i \in 1..Len(fields)}

\* formFields.reduce((acc, field) => { acc[field.name] = {...field, value}; return acc }, {})
\* the value is the one given for the field's name, when there is one
reduceToForm(fields, given) ==
    [n \in FieldNamesOf(fields) |->
        LET field == fields[CHOOSE i \in 1..Len(fields) :
                               fields[i].name = n /\ \A k \in (i+1)..Len(fields) : fields[k].name # n]
        IN IF n \in DOMAIN given THEN [field EXCEPT !.value = given[n]] ELSE field]

EmptyForm == [n \in {} |-> None]

\* the first render: the memo is computed, the state is still empty
Render ==
    /\ mounted = "no"
    /\ mounted' = "rendered"
    /\ formFields' = FormFields(props)
    /\ form' = EmptyForm
    /\ initialized' = FALSE
    /\ UNCHANGED <<props, lastChange, changes>>

\* the effect on [entityType, entity, formFields]
InitEffect ==
    /\ mounted = "rendered"
    /\ mounted' = "committed"
    /\ initialized' = TRUE
    /\ form' = IF props.entity # Undefined /\ props.entityType # "page"
               THEN reduceToForm(formFields, props.entity.values)
               ELSE reduceToForm(formFields, props.initialValues)
    /\ UNCHANGED <<props, formFields, lastChange, changes>>

\* the property key a value is used as: field.options[value as string]
\* an array is joined with commas: no key of a record of options has a comma
KeyOf(value) ==
    IF value.k = "str" THEN value.v
    ELSE IF value.v = <<>> THEN ""
    ELSE IF Len(value.v) = 1 THEN value.v[1]
    ELSE ","

\* the dependent field emptied, whatever its options
ResetValueEmpty(field, value) ==
    IF field.type = "multiselect" THEN A(<<>>) ELSE S("")

\* the value a dependent field is reset to when its parent becomes value
ResetValue(field, value) ==
    LET newOptions == IF KeyOf(value) \in DOMAIN field.options.map
                      THEN field.options.map[KeyOf(value)] ELSE <<>>
        firstOptionValue == IF newOptions # <<>> THEN newOptions[1].value ELSE ""
    IN IF field.options.k = "record"
       THEN IF field.type = "multiselect"
            THEN (IF firstOptionValue # "" THEN A(<<firstOptionValue>>) ELSE A(<<>>))
            ELSE S(firstOptionValue)
       ELSE IF field.type = "multiselect" THEN A(<<>>) ELSE S("")

RECURSIVE resetDependents(_, _, _, _)
\* formFields.forEach: reset the select and multiselect fields that depend on key
resetDependents(updatedForm, fields, key, value) ==
    IF fields = <<>> THEN updatedForm
    ELSE LET field == Head(fields)
         IN IF field.dependsOn # key \/ field.type \notin {"select", "multiselect"}
            THEN resetDependents(updatedForm, Tail(fields), key, value)
            ELSE resetDependents(
                     [updatedForm EXCEPT ![field.name].value = ResetValue(field, value)],
                     Tail(fields), key, value)

handleChange(key, value) ==
    resetDependents([form EXCEPT ![key].value = value], formFields, key, value)

MaxChanges == 2

\* what the inputs of a field can send
ChangeValues(type) ==
    IF type = "multiselect" THEN {A(<<>>), A(<<"1">>), A(<<"2">>), A(<<"1", "2">>)}
    ELSE {S(""), S("1"), S("2"), S("7")}

HandleChange ==
    /\ mounted = "committed" /\ initialized
    /\ changes < MaxChanges
    /\ \E i \in 1..Len(formFields) :
          \E value \in ChangeValues(formFields[i].type) :
             /\ form' = handleChange(formFields[i].name, value)
             /\ lastChange' = [key |-> formFields[i].name, value |-> value]
    /\ changes' = changes + 1
    /\ UNCHANGED <<props, mounted, formFields, initialized>>

---------------------------------------------------------------------------
(* The properties the providers send *)

Property(standardName, semantic, type, options, dependsOn) ==
    [standardName |-> standardName, label |-> standardName, semantic |-> semantic,
     type |-> type, options |-> options, dependsOn |-> dependsOn]

Options12 == ListOptions(<<Option("1"), Option("2")>>)
StagesByPipeline == RecordOptions([x \in {"1", "2"} |->
                        IF x = "1" THEN <<Option("10"), Option("11")>> ELSE <<>>])
LabelsByPipeline == RecordOptions([x \in {"1", "2"} |->
                        IF x = "1" THEN <<Option("L1")>> ELSE <<Option("L2"), Option("L3")>>])
EmptyRecord == RecordOptions([x \in {} |-> <<>>])

ContactProperties ==
    << Property(N.email, "email", "string", NoOptions, NoName),
       Property(N.name, "text", "string", NoOptions, NoName),
       Property(N.phone, "phone", "string", NoOptions, NoName) >>

CompanyProperties ==
    << Property(N.name, "text", "string", NoOptions, NoName),
       Property(N.industry, "enum", "enumeration", Options12, NoName),
       Property(N.website, "url", "string", NoOptions, NoName) >>

\* a pipeline with its stages and labels
DealProperties ==
    << Property(N.title, "text", "string", NoOptions, NoName),
       Property(N.amount, "currency", "number", NoOptions, NoName),
       Property(N.pipeline, "select", "enumeration", Options12, NoName),
       Property(N.stage, "stage", "enumeration", StagesByPipeline, N.pipeline),
       Property(N.closeDate, "date", "date", NoOptions, NoName),
       Property(N.labels, "set", "multiselect", LabelsByPipeline, N.pipeline) >>

\* an account with no pipeline yet
SparseDealProperties ==
    << Property(N.title, "text", "string", NoOptions, NoName),
       Property(N.pipeline, "select", "enumeration", ListOptions(<<>>), NoName),
       Property(N.stage, "stage", "enumeration", EmptyRecord, N.pipeline),
       Property(N.closeDate, "datetime", "date", NoOptions, NoName),
       Property(N.labels, "multiselect", "set", NoOptions, N.owner) >>

\* stages that depend on the labels, labels that depend on the pipeline
ChainDealProperties ==
    << Property(N.title, "text", "string", NoOptions, NoName),
       Property(N.pipeline, "select", "enumeration", Options12, NoName),
       Property(N.stage, "stage", "enumeration", StagesByPipeline, N.labels),
       Property(N.labels, "select", "enumeration", LabelsByPipeline, N.pipeline) >>

MeetingProperties ==
    << Property(N.duration, "select", "enumeration", Options12, NoName) >>

DatabaseProperties ==
    << Property(N.Title, "text", "title", NoOptions, NoName),
       Property(N.stage, "status", "status", Options12, NoName),
       Property(N.labels, "multiselect", "multi_select", Options12, NoName) >>

Database == "db1"

Catalog(dealProperties) ==
    << [id |-> "contact", properties |-> ContactProperties],
       [id |-> "company", properties |-> CompanyProperties],
       [id |-> "deal", properties |-> dealProperties],
       [id |-> "meeting", properties |-> MeetingProperties],
       [id |-> Database, properties |-> DatabaseProperties] >>

Catalogs ==
    {<<>>, Catalog(DealProperties), Catalog(SparseDealProperties), Catalog(ChainDealProperties)}

Providers == {"hubspot", "notion"}

NoValues == [n \in {} |-> None]
TitleValues == [n \in {N.title, N.name} |-> S("Acme")]

\* the forms the application opens: create forms, and edit forms of an entity
FormProps ==
    { [provider |-> provider, entityType |-> entityType, properties |-> properties,
       fieldFilter |-> fieldFilter, databaseId |-> Database,
       entity |-> entity, initialValues |-> initialValues] :
         provider \in Providers, entityType \in EntityTypes, properties \in Catalogs,
         fieldFilter \in {"all", "minimal"},
         entity \in {Undefined,
                     [id |-> [pageId |-> "p1", databaseId |-> Database],
                      values |-> TitleValues]},
         initialValues \in {NoValues, TitleValues} }

FormIdle ==
    /\ mounted = "no" /\ formFields = <<>> /\ form = EmptyForm
    /\ initialized = FALSE /\ lastChange = None /\ changes = 0

FormInit == props \in FormProps /\ FormIdle

RemIdle == RemInit /\ tz = 120

---------------------------------------------------------------------------
(* The field builder alone: three fields of any kind and parent, and an amount *)

GenNames == <<N.pipeline, N.stage, N.Title>>

NameOrders == {GenNames, <<N.Title, N.stage, N.pipeline>>}

Absent == [semantic |-> "absent"]

PropertyKinds ==
    { [semantic |-> "text", type |-> "string", options |-> NoOptions],
      [semantic |-> "currency", type |-> "number", options |-> NoOptions],
      [semantic |-> "datetime", type |-> "date", options |-> NoOptions],
      [semantic |-> "select", type |-> "enumeration", options |-> Options12],
      [semantic |-> "select", type |-> "enumeration", options |-> ListOptions(<<>>)],
      [semantic |-> "stage", type |-> "enumeration", options |-> StagesByPipeline],
      [semantic |-> "text", type |-> "multiselect", options |-> NoOptions],
      [semantic |-> "text", type |-> "string", options |-> Options12],
      [semantic |-> "set", type |-> "enumeration", options |-> Options12],
      [semantic |-> "multiselect", type |-> "enumeration", options |-> StagesByPipeline],
      Absent }

\* the parent of the i-th name: none, the next name, the one before, or a field not there
ParentOf(i, choice) ==
    CASE choice = 0 -> NoName
      [] choice = 1 -> GenNames[(i % 3) + 1]
      [] choice = 2 -> GenNames[((i + 1) % 3) + 1]
      [] OTHER -> N.owner

GenProperties(kinds, parents) ==
    LET all == [i \in 1..3 |->
                   IF kinds[i] = Absent THEN Absent
                   ELSE Property(GenNames[i], kinds[i].semantic, kinds[i].type,
                                 kinds[i].options, ParentOf(i, parents[i]))]
        Present(p) == p # Absent
    IN SelectSeq(all, Present)
         \o <<Property(N.amount, "currency", "number", NoOptions, NoName)>>

\* no field is its own ancestor
Acyclic(parents) ==
    LET up == [i \in 0..3 |-> IF i = 0 \/ parents[i] \in {0, 3} THEN 0
                              ELSE IF parents[i] = 1 THEN (i % 3) + 1
                              ELSE ((i + 1) % 3) + 1]
    IN \A i \in 1..3 : up[up[i]] # i /\ up[up[up[i]]] # i

FieldsInit ==
    /\ \E fieldNames \in NameOrders, kinds \in [1..3 -> PropertyKinds],
          parents \in {f \in [1..3 -> 0..3] : Acyclic(f)} :
          props = [fieldNames |-> fieldNames \o <<N.amount>>, provider |-> "hubspot",
                   properties |-> GenProperties(kinds, parents)]
    /\ FormIdle

BuildFields ==
    /\ mounted = "no"
    /\ mounted' = "built"
    /\ formFields' = buildFormFieldsFromProperties(props.fieldNames, props.properties,
                                                   props.provider)
    /\ UNCHANGED <<props, form, initialized, lastChange, changes>>

---------------------------------------------------------------------------
(* normalizeFieldValue.ts *)

Null == [t |-> "null"]
Bool(b) == [t |-> "boolean", b |-> b]
Arr(items) == [t |-> "array", items |-> items]
Obj(members) == [t |-> "object", members |-> members]

\* value.key of an object or an array; an array has none of the keys read here
Member(value, key) ==
    IF value.t = "object" /\ key \in DOMAIN value.members THEN value.members[key]
    ELSE Undefined

\* a ?? b
Coalesce(a, b) == IF a.t \in {"undefined", "null"} THEN b ELSE a

RECURSIVE String(_)
\* String(value)
String(value) ==
    CASE value.t = "string" -> value.s
      [] value.t = "number" -> ToDigits(value.n)
      [] value.t = "boolean" -> IF value.b THEN <<"t","r","u","e">> ELSE <<"f","a","l","s","e">>
      [] value.t = "undefined" -> <<"u","n","d","e","f","i","n","e","d">>
      [] value.t = "null" -> <<"n","u","l","l">>
      [] value.t = "array" ->
            LET RECURSIVE Join(_)
                Join(items) ==
                    IF items = <<>> THEN <<>>
                    ELSE (IF Head(items).t \in {"undefined", "null"} THEN <<>>
                          ELSE String(Head(items)))
                         \o (IF Len(items) > 1 THEN <<",">> \o Join(Tail(items)) ELSE <<>>)
            IN Join(value.items)
      [] OTHER -> <<"[","o","b","j","e","c","t"," ","O","b","j","e","c","t","]">>

toPrimitiveValue(value) ==
    IF ~Truthy(value) THEN Undefined
    ELSE IF value.t \in {"object", "array"}
    THEN LET candidate ==
                 Coalesce(Member(value, "value"),
                 Coalesce(Member(value, "id"),
                 Coalesce(Member(value, "key"),
                 Coalesce(Member(value, "name"), Member(value, "label")))))
         IN IF ~Truthy(candidate) THEN Undefined ELSE candidate
    ELSE value

RECURSIVE split(_, _)
\* s.split(c): the pieces of s between the occurrences of c
split(s, c) ==
    IF ~includes(s, c) THEN <<s>>
    ELSE LET at == CHOOSE i \in 1..Len(s) : s[i] = c /\ \A k \in 1..(i-1) : s[k] # c
         IN <<SubSeq(s, 1, at - 1)>> \o split(SubSeq(s, at + 1, Len(s)), c)

\* the pieces of a comma-separated string, trimmed, blank ones kept
multiselectFromStringUnfiltered(s) ==
    LET pieces == split(s, ",")
    IN Arr([i \in 1..Len(pieces) |-> Str(trim(pieces[i]))])

\* value.split(',').map((item) => item.trim()).filter(Boolean)
multiselectFromString(s) ==
    LET pieces == split(s, ",")
        trimmed == [i \in 1..Len(pieces) |-> Str(trim(pieces[i]))]
    IN Arr(SelectSeq(trimmed, Truthy))

\* value.map(toPrimitiveValue).filter(Boolean).map(String)
multiselectFromArray(items) ==
    LET primitives == [i \in 1..Len(items) |-> toPrimitiveValue(items[i])]
        kept == SelectSeq(primitives, Truthy)
    IN Arr([i \in 1..Len(kept) |-> Str(String(kept[i]))])

\* the first item as text, whatever it is
selectValueUnchecked(value) ==
    Str(String(IF value.t # "array" THEN value
               ELSE IF value.items = <<>> THEN Undefined ELSE value.items[1]))

\* the select branch
selectValue(value) ==
    LET primitive == IF value.t = "array"
                     THEN toPrimitiveValue(IF value.items = <<>> THEN Undefined
                                           ELSE value.items[1])
                     ELSE toPrimitiveValue(value)
    IN IF primitive = Undefined THEN Str(<<>>) ELSE Str(String(primitive))

normalizeFieldValue(field, value) ==
    IF ~Truthy(value) THEN Undefined
    ELSE IF field.type = "multiselect"
    THEN IF value.t = "array" THEN multiselectFromArray(value.items)
         ELSE IF value.t = "string" THEN multiselectFromString(value.s)
         ELSE LET primitive == toPrimitiveValue(value)
              IN IF primitive = Undefined THEN Arr(<<>>) ELSE Arr(<<Str(String(primitive))>>)
    ELSE IF field.type = "select" THEN selectValue(value)
    ELSE value

\* the values a caller passes: what an entity of a provider holds in a property
OptionObjects ==
    { Obj([k \in {"value", "label"} |-> IF k = "value" THEN Str(<<"a">>) ELSE Str(<<"A">>)]),
      Obj([k \in {"id", "name"} |-> IF k = "id" THEN Num(7) ELSE Str(<<"n">>)]),
      Obj([k \in {"label"} |-> Str(<<"L">>)]),
      Obj([k \in {"value", "id"} |-> IF k = "value" THEN Str(<<>>) ELSE Str(<<"i">>)]),
      Obj([k \in {"value", "key"} |-> IF k = "value" THEN Null ELSE Str(<<"k">>)]),
      Obj([k \in {} |-> Undefined]),
      Obj([k \in {"value"} |-> Arr(<<>>)]),
      Obj([k \in {"value"} |-> Obj([j \in {"id"} |-> Num(7)])]) }

Primitives ==
    { Undefined, Null, Num(0), Num(5), Bool(FALSE), Bool(TRUE),
      Str(<<>>), Str(<<"a">>), Str(<<"b">>), Str(<<" ","a">>),
      Str(<<"a",",","b">>), Str(<<" ","a"," ",","," ",",","b"," ">>), Str(<<",">>) }

MaxItems == 2

Items == Primitives \cup OptionObjects \cup {Arr(<<>>)}

NormValues ==
    Primitives \cup OptionObjects
      \cup {Arr(items) : items \in UNION {[1..n -> Items] : n \in 0..MaxItems}}

NormFields == {[type |-> type] : type \in {"multiselect", "select", "text"}}

NormInit ==
    /\ nfField \in NormFields /\ nfValue \in NormValues
    /\ nfOnce = None /\ nfTwice = None

NormIdle == nfField = None /\ nfValue = None /\ nfOnce = None /\ nfTwice = None

Normalize ==
    /\ nfField # None /\ nfOnce = None
    /\ nfOnce' = [returned |-> normalizeFieldValue(nfField, nfValue)]
    /\ UNCHANGED <<nfField, nfValue, nfTwice>>

NormalizeAgain ==
    /\ nfOnce # None /\ nfTwice = None
    /\ nfTwice' = [returned |-> normalizeFieldValue(nfField, nfOnce.returned)]
    /\ UNCHANGED <<nfField, nfValue, nfOnce>>

---------------------------------------------------------------------------
(* CreateEntity and CreateAndAssociateEntity: the create action *)

MaxSubmits == 2

Components == {"CreateEntity", "CreateAndAssociateEntity"}

CreateInit ==
    /\ component \in Components
    /\ selected \in BOOLEAN
    /\ attached = TRUE
    /\ screen = "Create"
    /\ isCreating = FALSE
    /\ isLoading = FALSE
    /\ createError = ""
    /\ filled \in BOOLEAN
    /\ searchQuery \in {"", "acme"}
    /\ runs = <<>>
    /\ pending = {}
    /\ acted = {}

CreateIdle ==
    /\ component = "none" /\ selected = FALSE /\ attached = FALSE /\ screen = "Main"
    /\ isCreating = FALSE /\ isLoading = FALSE /\ createError = "" /\ filled = FALSE
    /\ searchQuery = "" /\ runs = <<>> /\ pending = {} /\ acted = {}

\* the view no longer shows the component that issued the request
Irrelevant == ~attached \/ screen # "Create"

\* a call issued together with linkEntity
IssuedWithLink(i, api) == {[run |-> i, call |-> api], [run |-> i, call |-> "linkEntity"]}

\* what an awaited call of invocation i leaves outstanding
Issued(i, api) == {[run |-> i, call |-> api]}

\* what invocation i does past an await, in this order, with the state of the
\* view at that time
Act(i, whats) ==
    acted \cup {[run |-> i, what |-> whats[k], at |-> k, stale |-> Irrelevant] :
                   k \in 1..Len(whats)}

\* a new invocation at position p
Begin(p, via, outcome, cleared) ==
    Append(runs, [pc |-> p, via |-> via, shown |-> isLoading, entity |-> FALSE,
                  outcome |-> outcome, cleared |-> cleared])

\* invocation i goes on to await linkEntity, with the entity it got
SetPc(i, p) == [runs EXCEPT ![i].pc = p, ![i].entity = TRUE]

\* invocation i ends: handleCreate resolved (pc "done") or rejected ("failed"),
\* and handleSubmit went on to clearForm() or did not
End(i, p, outcome, cleared) ==
    [runs EXCEPT ![i].pc = p, ![i].outcome = outcome, ![i].cleared = cleared]

Awaiting(i, api) ==
    /\ i \in 1..Len(runs)
    /\ runs[i].pc = api
    /\ [run |-> i, call |-> api] \in pending

\* the submit button is disabled
Disabled == isLoading \/ ~filled

\* EntityForm.handleSubmit -> onSubmit -> onCreate(formData) -> handleCreate, up to
\* its first await
handleSubmit(via) ==
    /\ attached
    /\ Len(runs) < MaxSubmits
    /\ filled
    /\ LET i == Len(runs) + 1
           first == IF component = "CreateEntity" THEN "createProviderEntity"
                    ELSE "createTelebizAssociation"
       IN IF component = "CreateAndAssociateEntity" /\ ~selected
          THEN \* if (!selectedRelationship) return; then clearForm()
               /\ runs' = Begin("done", via, "skipped", TRUE)
               /\ filled' = FALSE
               /\ UNCHANGED <<isCreating, pending>>
          ELSE /\ runs' = Begin(first, via, "pending", FALSE)
               /\ isCreating' = TRUE
               /\ pending' = pending \cup Issued(i, first)
               /\ UNCHANGED filled
    /\ UNCHANGED <<component, selected, attached, screen, isLoading, createError,
                   searchQuery, acted>>

\* onClick of the button that renderSubmitButton draws
ClickSubmit == ~Disabled /\ handleSubmit("click")

\* the submit event of the form element
FormSubmit == handleSubmit("form")

\* a render hands isCreating to the form as isLoading
Rerender ==
    /\ attached
    /\ isLoading # isCreating
    /\ isLoading' = isCreating
    /\ UNCHANGED <<component, selected, attached, screen, isCreating, createError, filled,
                   searchQuery, runs, pending, acted>>

\* the form gets a value (the init effect's initialValues, or handleChange)
Fill ==
    /\ attached
    /\ ~filled
    /\ filled' = TRUE
    /\ UNCHANGED <<component, selected, attached, screen, isCreating, isLoading, createError,
                   searchQuery, runs, pending, acted>>

\* createProviderEntity resolves and linkEntity is called whatever came back
ResolveCreateAlways(i, entity) ==
    /\ Awaiting(i, "createProviderEntity")
    /\ runs' = [runs EXCEPT ![i].pc = "linkEntity", ![i].entity = entity]
    /\ pending' = (pending \ Issued(i, "createProviderEntity")) \cup Issued(i, "linkEntity")
    /\ acted' = Act(i, <<"linkEntity">>)
    /\ UNCHANGED <<component, selected, attached, screen, isCreating, isLoading, createError,
                   filled, searchQuery>>

\* createProviderEntity resolves, with an entity or without
ResolveCreate(i, entity) ==
    /\ Awaiting(i, "createProviderEntity")
    /\ IF ~entity \/ ~selected
       THEN \* return; finally setIsCreating(false); clearForm()
            /\ runs' = [End(i, "done", "noEntity", TRUE) EXCEPT ![i].entity = entity]
            /\ pending' = pending \ Issued(i, "createProviderEntity")
            /\ isCreating' = FALSE
            /\ filled' = FALSE
            /\ UNCHANGED acted
       ELSE /\ runs' = SetPc(i, "linkEntity")
            /\ pending' = (pending \ Issued(i, "createProviderEntity"))
                             \cup Issued(i, "linkEntity")
            /\ acted' = Act(i, <<"linkEntity">>)
            /\ UNCHANGED <<isCreating, filled>>
    /\ UNCHANGED <<component, selected, attached, screen, isLoading, createError, searchQuery>>

\* a call of CreateEntity.handleCreate rejects: catch, finally, then clearForm()
RejectCall(i, api) ==
    /\ api \in {"createProviderEntity", "linkEntity"}
    /\ Awaiting(i, api)
    /\ runs' = End(i, "done", "failed", TRUE)
    /\ pending' = pending \ Issued(i, api)
    /\ isCreating' = FALSE
    /\ filled' = FALSE
    /\ UNCHANGED <<component, selected, attached, screen, isLoading, createError,
                   searchQuery, acted>>

\* linkEntity resolves
ResolveLink(i) ==
    /\ Awaiting(i, "linkEntity")
    /\ runs' = End(i, "done", "created", TRUE)
    /\ pending' = pending \ Issued(i, "linkEntity")
    /\ acted' = Act(i, <<"addTelebizRelationship", "setTelebizIsAddingRelationship",
                         "setSearchQuery", "openTelebizPanelScreen">>)
    /\ searchQuery' = ""
    /\ screen' = "Main"
    /\ isCreating' = FALSE
    /\ filled' = FALSE
    /\ UNCHANGED <<component, selected, attached, isLoading, createError>>

\* createTelebizAssociation resolves
ResolveAssociation(i) ==
    /\ Awaiting(i, "createTelebizAssociation")
    /\ runs' = End(i, "done", "created", TRUE)
    /\ pending' = pending \ Issued(i, "createTelebizAssociation")
    /\ acted' = Act(i, <<"setSearchQuery", "openTelebizPanelScreen">>)
    /\ searchQuery' = ""
    /\ screen' = "Main"
    /\ createError' = ""
    /\ filled' = FALSE
    /\ UNCHANGED <<component, selected, attached, isCreating, isLoading>>

\* createTelebizAssociation rejects: the error is kept and thrown again, so
\* handleSubmit rejects before clearForm()
RejectAssociation(i, message) ==
    /\ Awaiting(i, "createTelebizAssociation")
    /\ runs' = End(i, "failed", "failed", FALSE)
    /\ pending' = pending \ Issued(i, "createTelebizAssociation")
    /\ isCreating' = FALSE
    /\ createError' = IF message = "" THEN createError ELSE message
    /\ UNCHANGED <<component, selected, attached, screen, isLoading, filled, searchQuery,
                   acted>>

\* the component is removed from the panel
Unmount ==
    /\ attached
    /\ attached' = FALSE
    /\ UNCHANGED <<component, selected, screen, isCreating, isLoading, createError, filled,
                   searchQuery, runs, pending, acted>>

\* the user opens another screen of the panel
OpenScreen(s) ==
    /\ screen = "Create"
    /\ s \in {"Main", "Other"}
    /\ screen' = s
    /\ UNCHANGED <<component, selected, attached, isCreating, isLoading, createError, filled,
                   searchQuery, runs, pending, acted>>

---------------------------------------------------------------------------
(* sortFieldsByPriority on its own *)

MaxFields == 4

SortField(name, type, dependsOn) ==
    [name |-> name, providerLabel |-> Undefined, type |-> type, options |-> NoOptions,
     dependsOn |-> dependsOn, value |-> S("")]

SortFieldChoices ==
    { SortField(N.title, "text", NoName),
      SortField(N.subject, "textarea", NoName),
      SortField(N.Title, "date", NoName),
      SortField(N.pipeline, "select", NoName),
      SortField(N.labels, "multiselect", NoName),
      SortField(N.owner, "text", NoName),
      SortField(N.email, "text", NoName),
      SortField(N.amount, "number", NoName),
      SortField(N.body, "textarea", NoName),
      SortField(N.stage, "select", N.pipeline),
      SortField(N.name, "text", N.stage),
      SortField(N.priority, "select", N.industry) }

SortInit ==
    /\ \E n \in 0..MaxFields : \E fields \in [1..n -> SortFieldChoices] :
          props = [fields |-> fields]
    /\ FormIdle

\* sortFieldsByPriority(fields)
SortFields ==
    /\ mounted = "no"
    /\ mounted' = "sorted"
    /\ formFields' = sortFieldsByPriority(props.fields)
    /\ UNCHANGED <<props, form, initialized, lastChange, changes>>

---------------------------------------------------------------------------
(* MediaEditor: draw and crop *)

MIN_ZOOM == 100
MAX_ZOOM == 300
DEFAULT_BRUSH_SIZE == 5

MaxPoints == 4       \* points drawn, over all the strokes kept

\* the width and height of the image, which the canvas takes
CanvasSizes == {[width |-> 4, height |-> 8]}

\* where the pointer is, in client coordinates (the canvas is shown unscaled at
\* the origin, so that these are canvas coordinates as well)
PointerPositions == {[x |-> 0, y |-> 0], [x |-> 6, y |-> 3]}

\* the values of the zoom slider that are used
ZoomValues == {MIN_ZOOM, 200, MAX_ZOOM}

EditInit ==
    /\ canvas \in CanvasSizes
    /\ mode = "draw"
    /\ drawActions = <<>>
    /\ currentAction = Undefined
    /\ isDrawing = FALSE
    /\ zoom = MIN_ZOOM
    /\ imagePosition = [x |-> 0, y |-> 0]
    /\ isDragging = FALSE
    /\ lastMousePosition = [x |-> 0, y |-> 0]
    /\ lastImagePosition = [x |-> 0, y |-> 0]

EditIdle ==
    /\ canvas = None /\ mode = "draw" /\ drawActions = <<>> /\ currentAction = Undefined
    /\ isDrawing = FALSE /\ zoom = MIN_ZOOM /\ imagePosition = [x |-> 0, y |-> 0]
    /\ isDragging = FALSE /\ lastMousePosition = [x |-> 0, y |-> 0]
    /\ lastImagePosition = [x |-> 0, y |-> 0]

\* the points of the strokes kept and of the stroke being drawn
RECURSIVE PointsIn(_)
PointsIn(actions) ==
    IF actions = <<>> THEN 0 ELSE Len(Head(actions).points) + PointsIn(Tail(actions))

PointsDrawn ==
    PointsIn(drawActions) + (IF currentAction = Undefined THEN 0 ELSE Len(currentAction.points))

\* clamp(num, min, max)
clamp(num, min, max) == IF num < min THEN min ELSE IF num > max THEN max ELSE num

\* (zoom - 100) / 100 * canvas.width / 2, exact for the zoom values used
maxOffset == ((zoom - 100) * canvas.width) \div 200

handleDrawStart(p) ==
    /\ PointsDrawn - (IF currentAction = Undefined THEN 0 ELSE Len(currentAction.points))
           < MaxPoints
    /\ isDrawing' = TRUE
    /\ currentAction' = [type |-> "draw", points |-> <<p>>, color |-> "#FFFFFF",
                         brushSize |-> DEFAULT_BRUSH_SIZE]
    /\ UNCHANGED <<canvas, mode, drawActions, zoom, imagePosition, isDragging,
                   lastMousePosition, lastImagePosition>>

handleDrawMove(p) ==
    /\ IF ~isDrawing \/ mode # "draw" \/ currentAction = Undefined
       THEN UNCHANGED currentAction
       ELSE /\ PointsDrawn < MaxPoints
            /\ currentAction' = [currentAction EXCEPT !.points = Append(@, p)]
    /\ UNCHANGED <<canvas, mode, drawActions, isDrawing, zoom, imagePosition, isDragging,
                   lastMousePosition, lastImagePosition>>

handleDrawEnd ==
    /\ IF ~isDrawing \/ currentAction = Undefined
       THEN UNCHANGED <<isDrawing, drawActions, currentAction>>
       ELSE /\ isDrawing' = FALSE
            /\ IF Len(currentAction.points) > 1
               THEN drawActions' = Append(drawActions, currentAction)
               ELSE UNCHANGED drawActions
            /\ currentAction' = Undefined
    /\ UNCHANGED <<canvas, mode, zoom, imagePosition, isDragging, lastMousePosition,
                   lastImagePosition>>

handleCropStart(p) ==
    /\ isDragging' = TRUE
    /\ lastMousePosition' = p
    /\ lastImagePosition' = imagePosition
    /\ UNCHANGED <<canvas, mode, drawActions, currentAction, isDrawing, zoom, imagePosition>>

handleCropMove(p) ==
    /\ IF mode # "crop" \/ ~isDragging
       THEN UNCHANGED imagePosition
       ELSE LET deltaX == p.x - lastMousePosition.x
                deltaY == p.y - lastMousePosition.y
            IN imagePosition' = [x |-> clamp(lastImagePosition.x + deltaX,
                                             -maxOffset, maxOffset),
                                 y |-> clamp(lastImagePosition.y + deltaY,
                                             -maxOffset, maxOffset)]
    /\ UNCHANGED <<canvas, mode, drawActions, currentAction, isDrawing, zoom, isDragging,
                   lastMousePosition, lastImagePosition>>

handleCropEnd ==
    /\ isDragging' = FALSE
    /\ UNCHANGED <<canvas, mode, drawActions, currentAction, isDrawing, zoom, imagePosition,
                   lastMousePosition, lastImagePosition>>

\* onMouseDown / onTouchStart
handlePointerDown(p) == IF mode = "draw" THEN handleDrawStart(p) ELSE handleCropStart(p)

\* onMouseMove / onTouchMove
handlePointerMove(p) == IF mode = "draw" THEN handleDrawMove(p) ELSE handleCropMove(p)

\* onMouseUp / onMouseLeave / onTouchEnd
handlePointerUp == IF mode = "draw" THEN handleDrawEnd ELSE handleCropEnd

\* the Undo button, shown in draw mode and disabled without a stroke
handleUndo ==
    /\ mode = "draw" /\ drawActions # <<>>
    /\ drawActions' = SubSeq(drawActions, 1, Len(drawActions) - 1)
    /\ UNCHANGED <<canvas, mode, currentAction, isDrawing, zoom, imagePosition, isDragging,
                   lastMousePosition, lastImagePosition>>

\* the Clear button, shown in draw mode and disabled without a stroke
handleClear ==
    /\ mode = "draw" /\ drawActions # <<>>
    /\ drawActions' = <<>>
    /\ UNCHANGED <<canvas, mode, currentAction, isDrawing, zoom, imagePosition, isDragging,
                   lastMousePosition, lastImagePosition>>

handleModeChange(newMode) ==
    /\ mode' = newMode
    /\ IF newMode = "crop"
       THEN zoom' = MIN_ZOOM /\ imagePosition' = [x |-> 0, y |-> 0]
       ELSE UNCHANGED <<zoom, imagePosition>>
    /\ UNCHANGED <<canvas, drawActions, currentAction, isDrawing, isDragging,
                   lastMousePosition, lastImagePosition>>

\* the zoom slider, shown in crop mode: onChange={setZoom}
setZoom(value) ==
    /\ mode = "crop"
    /\ value # zoom
    /\ zoom' = value
    /\ UNCHANGED <<canvas, mode, drawActions, currentAction, isDrawing, imagePosition,
                   isDragging, lastMousePosition, lastImagePosition>>

---------------------------------------------------------------------------
(* Specifications *)

\* the reminder tools
Init == RemInit /\ props = None /\ FormIdle /\ NormIdle /\ CreateIdle /\ EditIdle

Next ==
    \/ InvokeTimed /\ UNCHANGED exceptRem
    \/ InvokeOther /\ UNCHANGED exceptRem
    \/ ApiResolve /\ UNCHANGED exceptRem
    \/ ApiReject /\ UNCHANGED exceptRem
    \/ Return /\ UNCHANGED exceptRem

Spec == Init /\ [][Next]_vars

\* the entity form
FormNext ==
    \/ Render /\ UNCHANGED exceptForm
    \/ InitEffect /\ UNCHANGED exceptForm
    \/ HandleChange /\ UNCHANGED exceptForm

InitForm == FormInit /\ RemIdle /\ NormIdle /\ CreateIdle /\ EditIdle

SpecForm == InitForm /\ [][FormNext]_vars

\* the field builder
FieldsNext == BuildFields /\ UNCHANGED exceptForm

InitFields == FieldsInit /\ RemIdle /\ NormIdle /\ CreateIdle /\ EditIdle

SpecFields == InitFields /\ [][FieldsNext]_vars

\* normalizeFieldValue
NormNext ==
    \/ Normalize /\ UNCHANGED exceptNorm
    \/ NormalizeAgain /\ UNCHANGED exceptNorm

InitNorm == NormInit /\ RemIdle /\ props = None /\ FormIdle /\ CreateIdle /\ EditIdle

SpecNorm == InitNorm /\ [][NormNext]_vars

\* sortFieldsByPriority
SortNext == SortFields /\ UNCHANGED exceptForm

InitSort == SortInit /\ RemIdle /\ NormIdle /\ CreateIdle /\ EditIdle

SpecSort == InitSort /\ [][SortNext]_vars

\* listReminders
ListNext ==
    \/ InvokeList /\ UNCHANGED exceptRem
    \/ Return /\ UNCHANGED exceptRem

InitList == ListInit /\ props = None /\ FormIdle /\ NormIdle /\ CreateIdle /\ EditIdle

SpecList == InitList /\ [][ListNext]_vars

\* the media editor
EditNext ==
    \/ \E p \in PointerPositions : handlePointerDown(p) /\ UNCHANGED exceptEdit
    \/ \E p \in PointerPositions : handlePointerMove(p) /\ UNCHANGED exceptEdit
    \/ handlePointerUp /\ UNCHANGED exceptEdit
    \/ handleUndo /\ UNCHANGED exceptEdit
    \/ handleClear /\ UNCHANGED exceptEdit
    \/ \E newMode \in {"draw", "crop"} : handleModeChange(newMode) /\ UNCHANGED exceptEdit
    \/ \E value \in ZoomValues : setZoom(value) /\ UNCHANGED exceptEdit

InitEdit == EditInit /\ RemIdle /\ props = None /\ FormIdle /\ NormIdle /\ CreateIdle

SpecEdit == InitEdit /\ [][EditNext]_vars

\* the create action of the two components
CreateNext ==
    \/ ClickSubmit /\ UNCHANGED exceptCreate
    \/ FormSubmit /\ UNCHANGED exceptCreate
    \/ Rerender /\ UNCHANGED exceptCreate
    \/ Fill /\ UNCHANGED exceptCreate
    \/ \E i \in 1..MaxSubmits : \E entity \in BOOLEAN :
          ResolveCreate(i, entity) /\ UNCHANGED exceptCreate
    \/ \E i \in 1..MaxSubmits : \E api \in {"createProviderEntity", "linkEntity"} :
          RejectCall(i, api) /\ UNCHANGED exceptCreate
    \/ \E i \in 1..MaxSubmits : ResolveLink(i) /\ UNCHANGED exceptCreate
    \/ \E i \in 1..MaxSubmits : ResolveAssociation(i) /\ UNCHANGED exceptCreate
    \/ \E i \in 1..MaxSubmits : \E message \in {"", "Name is required"} :
          RejectAssociation(i, message) /\ UNCHANGED exceptCreate
    \/ Unmount /\ UNCHANGED exceptCreate
    \/ \E s \in {"Main", "Other"} : OpenScreen(s) /\ UNCHANGED exceptCreate

InitCreate == CreateInit /\ RemIdle /\ props = None /\ FormIdle /\ NormIdle /\ EditIdle

SpecCreate == InitCreate /\ [][CreateNext]_vars

---------------------------------------------------------------------------
(* Claims about parseRemindAt and the reminder tools *)

Succeeded == result.t = "ToolResult" /\ result.success

Timed == pc # "idle" /\ call.toolName \in {"createReminder", "updateReminder"}

\* the seconds of each unit, in the order of UnitTable
UnitSeconds == <<60, 3600, 86400, 604800>>

\* r is exactly n units of u seconds after d
ExactlyAfter(r, d, n, u) ==
    IF u >= 86400
    THEN r.day - d.day = n * (u \div 86400) /\ r.ms = d.ms
    ELSE /\ (r.ms - d.ms) % (u * 1000) = 0
         /\ (r.day - d.day) * (86400 \div u) + ((r.ms - d.ms) \div (u * 1000)) = n

\* d plus n units of u seconds is a time value a Date can hold (at most 8.64e15 ms)
InDateRange(d, n, u) ==
    LET whole == IF u >= 86400 THEN n * (u \div 86400) ELSE n \div (86400 \div u)
        rest == IF u >= 86400 THEN 0 ELSE (n % (86400 \div u)) * u * 1000
        day == d.day + whole + ((d.ms + rest) \div MsPerDay)
    IN day < MaxDateDay \/ (day = MaxDateDay /\ (d.ms + rest) % MsPerDay = 0)

\* C1 as stated: for every input "in N unit[s]" (any case, padded or not) parseRemindAt
\* returns exactly now + N x unit_duration.
C1_AsStated ==
    (Timed /\ shape.kind = "rel") =>
        /\ remindAt.t = "date" /\ remindAt.valid
        /\ ExactlyAfter(remindAt, now, shape.n, UnitSeconds[shape.unit])

\* C1, amended: for every input "in N unit[s]" parseRemindAt returns exactly
\* now + N x unit_duration when that instant is within the range of a Date
\* (8.64e15 ms from the epoch), and the Invalid Date beyond it.
C1_Relative ==
    (Timed /\ shape.kind = "rel") =>
        /\ remindAt.t = "date"
        /\ IF InDateRange(now, shape.n, UnitSeconds[shape.unit])
           THEN remindAt.valid /\ ExactlyAfter(remindAt, now, shape.n, UnitSeconds[shape.unit])
           ELSE ~remindAt.valid

C1_Witness ==
    /\ pc = "done" /\ call.toolName = "createReminder" /\ Succeeded
    /\ shape.kind = "rel" /\ shape.n = 90 /\ shape.unit = 2 /\ ~shape.plural
    /\ shape.style.case = "title" /\ shape.style.padded
    /\ now.ms = 15 * MsPerHour
    /\ remindAt.day = now.day + 4 /\ remindAt.ms = 9 * MsPerHour

Unparsed ==
    /\ pc = "done"
    /\ result = Failure("Could not parse reminder time: ", call.args.remindAt)
    /\ apiCalls = <<>>
    /\ refreshes = 0

\* C2 as stated: an unparseable remindAt string given to createReminder or
\* updateReminder ends in a failure that quotes the string, with no reminder API
\* call and no refresh.
C2_AsStated ==
    (Timed /\ shape.kind = "junk") => Unparsed

\* C2, amended: the same for createReminder with any unparseable string and for
\* updateReminder with any non-empty one, with or without a description; an
\* empty remindAt given to updateReminder counts as not supplied, and the update
\* call is issued.
C2_Unparseable ==
    (Timed /\ shape.kind = "junk") =>
        IF call.toolName = "createReminder" \/ call.args.remindAt.s # <<>>
        THEN Unparsed
        ELSE Len(apiCalls) = 1 /\ apiCalls[1].method = "updateReminder"

C2_Witness ==
    /\ Unparsed
    /\ call.toolName = "updateReminder"
    /\ Truthy(call.args.description)
    /\ call.args.remindAt = Str(<<"n","o","t"," ","a"," ","t","i","m","e">>)
    /\ result.error.arg = call.args.remindAt

\* C3: whatever the tool name and the arguments, executeRemindersTool ends with a
\* ToolResult; its promise never rejects.
C3_AsStated ==
    pc = "done" => result.t = "ToolResult"

\* the local fields of the parsed remindAt
AtLocal(day, ms) ==
    /\ remindAt.t = "date" /\ remindAt.valid
    /\ LocalDay(remindAt, tz) = day
    /\ LocalMs(remindAt, tz) = ms

Is5pm == /\ shape.kind = "today" /\ shape.prefix = <<>>
         /\ shape.clock = [h |-> 5, m |-> -1, gap |-> FALSE, ampm |-> "pm"]
IsTodayAt5 == /\ shape.kind = "today" /\ shape.prefix = <<"t","o","d","a","y"," ","a","t"," ">>
              /\ shape.clock = [h |-> 5, m |-> -1, gap |-> FALSE, ampm |-> "none"]
IsTodayAt5pm == /\ shape.kind = "today" /\ shape.prefix = <<"t","o","d","a","y"," ","a","t"," ">>
                /\ shape.clock = [h |-> 5, m |-> -1, gap |-> FALSE, ampm |-> "pm"]

\* C7 as stated: "5pm" and "today at 5" both give 17:00:00.000 local on now's date.
C7_AsStated ==
    (Timed /\ (Is5pm \/ IsTodayAt5)) => AtLocal(LocalDay(now, tz), 17 * MsPerHour)

\* C7, amended: "5pm" and "today at 5pm" both give 17:00:00.000 local on now's
\* date; "today at 5", with no meridiem, gives 05:00:00.000 local on now's date.
C7_FivePm ==
    /\ (Timed /\ (Is5pm \/ IsTodayAt5pm)) => AtLocal(LocalDay(now, tz), 17 * MsPerHour)
    /\ (Timed /\ IsTodayAt5) => AtLocal(LocalDay(now, tz), 5 * MsPerHour)

C7_Witness ==
    /\ pc = "done" /\ call.toolName = "createReminder" /\ Succeeded
    /\ IsTodayAt5pm
    /\ now.ms = MsPerDay - 1
    /\ AtLocal(LocalDay(now, tz), 17 * MsPerHour)

\* the hour a written clock time means
ClockHour(c) ==
    CASE c.ampm = "pm" /\ c.h < 12 -> c.h + 12
      [] c.ampm = "am" /\ c.h = 12 -> 0
      [] OTHER -> c.h

ClockMs(c) == ClockHour(c) * 3600000 + (IF c.m >= 0 THEN c.m ELSE 0) * 60000

\* C8 as stated: an input that starts with "tomorrow" gives a time on the day
\* after now's local date: the clock time in the input (hour at most 23, minutes
\* at most 59), or 09:00:00.000 when it holds none.
C8_AsStated ==
    /\ (Timed /\ shape.kind = "tom" /\ ClockHour(shape.clock) <= 23 /\ shape.clock.m <= 59)
          => AtLocal(LocalDay(now, tz) + 1, ClockMs(shape.clock))
    /\ (Timed /\ shape.kind = "tomBare") => AtLocal(LocalDay(now, tz) + 1, 9 * 3600000)
    /\ (Timed /\ shape.kind = "tomDate") =>
          /\ remindAt.t = "date" /\ remindAt.valid
          /\ LocalDay(remindAt, tz) = LocalDay(now, tz) + 1

\* C8, amended: the same for an input that starts with "tomorrow" and is not
\* taken by the absolute rule; an input with a hyphen that the engine's Date
\* parser accepts is returned as that date, whatever day it is.
C8_Tomorrow ==
    /\ (Timed /\ shape.kind = "tom" /\ ClockHour(shape.clock) <= 23 /\ shape.clock.m <= 59)
          => AtLocal(LocalDay(now, tz) + 1, ClockMs(shape.clock))
    /\ (Timed /\ shape.kind = "tomBare") => AtLocal(LocalDay(now, tz) + 1, 9 * 3600000)
    /\ (Timed /\ shape.kind = "tomDate") =>
          IF legacy.valid
          THEN remindAt = legacy
          ELSE /\ remindAt.t = "date" /\ remindAt.valid
               /\ LocalDay(remindAt, tz) = LocalDay(now, tz) + 1

C8_Witness ==
    /\ pc = "done" /\ call.toolName = "updateReminder" /\ Succeeded
    /\ shape.kind = "tom"
    /\ shape.clock = [h |-> 9, m |-> 30, gap |-> TRUE, ampm |-> "pm"]
    /\ now.ms = 0 /\ tz = -300
    /\ remindAt.day = now.day + 1 /\ remindAt.ms = 2 * MsPerHour + 30 * MsPerMinute

---------------------------------------------------------------------------
(* Claims about the form builder and the entity form *)

Built == mounted = "built"
Rendered == mounted \in {"rendered", "committed"}

IsChoice(field) == field.type \in {"select", "multiselect"}

\* where the field of a name stands in the built sequence; 0 when there is none
PlacedAt(name) ==
    IF \E i \in 1..Len(formFields) : formFields[i].name = name
    THEN CHOOSE i \in 1..Len(formFields) : formFields[i].name = name
    ELSE 0

IsDependent(i) == formFields[i].dependsOn # NoName

\* C4, as stated: every dependent field whose parent is in the set stands
\* immediately after its parent, and a dependent field whose parent is absent
\* stands after all other fields (only dependent fields follow it).
C4_AsStated ==
    Built =>
      \A i \in 1..Len(formFields) :
         IsDependent(i) =>
            IF PlacedAt(formFields[i].dependsOn) # 0
            THEN i = PlacedAt(formFields[i].dependsOn) + 1
            ELSE \A k \in (i+1)..Len(formFields) : IsDependent(k)

\* the title depends on the stage and is listed before it: it was pushed to the
\* end before the stage was placed after the pipeline
C4_Witness ==
    /\ Built /\ Len(formFields) = 4
    /\ props.fieldNames = <<N.Title, N.stage, N.pipeline, N.amount>>
    /\ formFields[1].name = N.pipeline /\ ~IsDependent(1)
    /\ formFields[2].name = N.stage /\ formFields[2].dependsOn = N.pipeline
    /\ formFields[3].name = N.amount
    /\ formFields[4].name = N.Title /\ formFields[4].dependsOn = N.stage

\* C5, as stated: no select or multiselect field without options is in the
\* final sequence, except a dependent field with a non-empty mapping of options.
C5_AsStated ==
    Rendered =>
      \A i \in 1..Len(formFields) :
         IsChoice(formFields[i]) =>
            \/ HasListOptions(formFields[i].options)
            \/ IsDependent(i) /\ HasRecordOptions(formFields[i].options)

AllowedBy(entityType) == {MINIMAL_FIELDS[entityType][i] : i \in 1..Len(MINIMAL_FIELDS[entityType])}

\* C6, as stated: with fieldFilter 'minimal' the sequence is the 'all' sequence
\* restricted to the allow-list of the entity type, or the 'all' sequence when
\* the allow-list is empty.
C6_AsStated ==
    Rendered /\ props.fieldFilter = "minimal" =>
      LET full == FormFields([props EXCEPT !.fieldFilter = "all"])
          Allowed(field) == field.name \in AllowedBy(props.entityType)
      IN formFields = IF hasMinimalFields(props.entityType)
                      THEN SelectSeq(full, Allowed) ELSE full

\* C9: the names of the fields of a built form are pairwise distinct, and the
\* form state has one entry per field.
C9_DistinctNames ==
    /\ Rendered =>
          \A i, j \in 1..Len(formFields) : i # j => formFields[i].name # formFields[j].name
    /\ mounted = "committed" => Cardinality(DOMAIN form) = Len(formFields)

C9_Witness ==
    /\ mounted = "committed" /\ props.provider = "hubspot" /\ props.entityType = "deal"
    /\ Len(formFields) = 6 /\ Cardinality(DOMAIN form) = 6

\* the first option a dependent field has for the value v of its parent, or ""
FirstOptionFor(field, v) ==
    LET key == IF v.k = "str" THEN {v.v}
               ELSE IF Len(v.v) = 1 THEN {v.v[1]} ELSE {}
        lists == IF field.options.k = "record"
                 THEN {field.options.map[x] : x \in key \cap DOMAIN field.options.map}
                 ELSE {}
    IN IF \E l \in lists : l # <<>>
       THEN (CHOOSE l \in lists : TRUE)[1].value
       ELSE ""

Changed == mounted = "committed" /\ changes > 0

\* C10: after handleChange sets a field to v, every select that depends on it
\* holds the first option of its list for v, or "" when there is none; a
\* dependent multiselect holds that first value alone, or nothing.
C10_DependentsReset ==
    Changed =>
      \A i \in 1..Len(formFields) :
         formFields[i].dependsOn = lastChange.key /\ IsChoice(formFields[i]) =>
            LET first == FirstOptionFor(formFields[i], lastChange.value)
                value == form[formFields[i].name].value
            IN IF formFields[i].type = "select" THEN value = S(first)
               ELSE value = IF first = "" THEN A(<<>>) ELSE A(<<first>>)

\* the pipeline was changed twice: the stage and the labels follow the last value
C10_Witness ==
    /\ Changed /\ changes = 2
    /\ lastChange = [key |-> N.pipeline, value |-> S("1")]
    /\ N.stage \in DOMAIN form /\ form[N.stage].value = S("10")
    /\ N.labels \in DOMAIN form /\ form[N.labels].value = A(<<"L1">>)

---------------------------------------------------------------------------
(* Claims about normalizeFieldValue *)

Once == nfOnce # None
Twice == nfTwice # None

IsStrings(v) == v.t = "array" /\ \A i \in 1..Len(v.items) : v.items[i].t = "string"

\* a string, a number, a boolean, undefined or null
IsPrimitive(v) == v.t \notin {"array", "object"}

\* the members of an option object are primitive
IsFlat(v) == v.t = "object" => \A k \in DOMAIN v.members : IsPrimitive(v.members[k])

\* C11, as stated: for a multiselect field a sequence of plain strings is returned
\* unchanged, and normalizing a returned value returns it again, for every input.
C11_AsStated ==
    /\ (Once /\ nfField.type = "multiselect" /\ IsStrings(nfValue))
          => nfOnce.returned = nfValue
    /\ (Twice /\ nfField.type = "multiselect") => nfTwice.returned = nfOnce.returned

\* C11: for a multiselect field a sequence of non-empty plain strings is returned
\* unchanged (empty strings are dropped), and normalizing a returned value
\* returns it again for every input whose option objects hold primitive members.
C11_Idempotent ==
    /\ (Once /\ nfField.type = "multiselect" /\ IsStrings(nfValue))
          => nfOnce.returned = Arr(SelectSeq(nfValue.items, Truthy))
    /\ (Twice /\ nfField.type = "multiselect" /\ IsFlat(nfValue)
          /\ (nfValue.t = "array" => \A i \in 1..Len(nfValue.items) : IsFlat(nfValue.items[i])))
          => nfTwice.returned = nfOnce.returned

\* "a, ,b" with blanks was split into two strings, and normalized again
C11_Witness ==
    /\ Twice /\ nfField.type = "multiselect"
    /\ nfValue = Str(<<" ","a"," ",","," ",",","b"," ">>)
    /\ nfOnce.returned = Arr(<<Str(<<"a">>), Str(<<"b">>)>>)
    /\ nfTwice.returned = nfOnce.returned

IsEmptyInput(v) == ~Truthy(v) \/ v = Arr(<<>>)

\* C12, as stated: a falsy or empty input gives undefined for a select field, and
\* undefined or the empty sequence for a multiselect field.
C12_AsStated ==
    (Once /\ IsEmptyInput(nfValue)) =>
        /\ nfField.type = "select" => nfOnce.returned = Undefined
        /\ nfField.type = "multiselect" => nfOnce.returned \in {Undefined, Arr(<<>>)}

\* C12: a falsy input gives undefined for both field types; the empty sequence
\* gives the empty string for a select field and the empty sequence for a
\* multiselect field.
C12_NoValue ==
    (Once /\ IsEmptyInput(nfValue) /\ nfField.type \in {"select", "multiselect"}) =>
        IF Truthy(nfValue) THEN nfOnce.returned = (IF nfField.type = "select"
                                                  THEN Str(<<>>) ELSE nfValue)
        ELSE nfOnce.returned = Undefined

C12_Witness ==
    /\ Once /\ nfField.type = "select" /\ nfValue = Arr(<<>>)
    /\ nfOnce.returned = Str(<<>>)

---------------------------------------------------------------------------
(* Claims about the construction of the field list *)

\* the properties of the database of a page form
DatabaseOf(p) ==
    propertiesOf(p.properties,
                 IF p.entity # Undefined THEN decodeEntityId(p.entity.id)[2] ELSE p.databaseId)

HasProperty(properties, name) ==
    \E i \in 1..Len(properties) : properties[i].standardName = name

InSeq(x, seq) == \E i \in 1..Len(seq) : seq[i] = x

\* one field per property of the database, in its order
FromSchema(properties) ==
    /\ Len(formFields) = Len(properties)
    /\ \A i \in 1..Len(formFields) : formFields[i].name = properties[i].standardName

\* every field is built from the provider's property of a listed name
FromProperties(fieldNames, properties) ==
    \A i \in 1..Len(formFields) :
       /\ InSeq(formFields[i].name, fieldNames)
       /\ \E k \in 1..Len(properties) :
             /\ properties[k].standardName = formFields[i].name
             /\ formFields[i].options = properties[k].options
             /\ formFields[i].dependsOn = properties[k].dependsOn

\* every field is a field of the template, in the template's order; the
\* provider gives at most its label and its list of options
FromTemplate(template, properties) ==
    \E at \in [1..Len(formFields) -> 1..Len(template)] :
       /\ \A i, j \in 1..Len(formFields) : i < j => at[i] < at[j]
       /\ \A i \in 1..Len(formFields) :
             /\ formFields[i].name = template[at[i]].name
             /\ formFields[i].type = template[at[i]].type
             /\ formFields[i].value = template[at[i]].value
             /\ formFields[i].dependsOn = template[at[i]].dependsOn
             /\ \/ formFields[i].options = template[at[i]].options
                \/ /\ HasProperty(properties, formFields[i].name)
                   /\ formFields[i].options = getPropertyOptions(properties, formFields[i].name)
                   /\ formFields[i].options.k = "list"

\* C13: the field list comes from one strategy: the properties of the database
\* for a page whose database has properties, else the provider's properties of
\* the listed names when the provider has dynamic fields for the entity type,
\* else the static template, to which the provider adds labels and option lists
\* only.
C13_OneStrategy ==
    Rendered =>
      IF props.entityType = "page" /\ DatabaseOf(props) # <<>>
      THEN FromSchema(DatabaseOf(props))
      ELSE IF hasDynamicFields(props.provider, props.entityType)
      THEN FromProperties(getFieldNamesForProvider(props.provider, props.entityType),
                          propertiesOf(props.properties, props.entityType))
      ELSE FromTemplate(forms[props.entityType],
                        propertiesOf(props.properties, props.entityType))

\* a static meeting form whose duration takes the provider's options
C13_Witness ==
    /\ Rendered /\ props.provider = "notion" /\ props.entityType = "meeting"
    /\ Len(formFields) = 3
    /\ formFields[3].name = N.duration /\ formFields[3].options = Options12
    /\ formFields[3].value = S("15")

\* C14: the names of the built fields are exactly the requested names that have
\* a property; a name without one is left out.
C14_MissingDropped ==
    Built =>
      FieldNamesOf(formFields)
        = {props.fieldNames[i] : i \in {k \in 1..Len(props.fieldNames) :
                                           HasProperty(props.properties, props.fieldNames[k])}}

\* two of the four requested names have no property
C14_Witness ==
    /\ Built /\ Len(props.fieldNames) = 4 /\ Len(props.properties) = 2
    /\ ~HasProperty(props.properties, N.pipeline)
    /\ ~HasProperty(props.properties, N.Title)
    /\ Len(formFields) = 2
    /\ FieldNamesOf(formFields) = {N.stage, N.amount}

---------------------------------------------------------------------------
(* Claims about the create action *)

Outstanding(i) == {p \in pending : p.run = i}

OneCallEach == \A i \in 1..Len(runs) : Cardinality(Outstanding(i)) <= 1

InFlight == pending # {}

\* C15 as stated: an invocation never has two calls outstanding, and while a
\* call is in flight the submit button of a valid form is not disabled.
C15_AsStated ==
    /\ OneCallEach
    /\ (InFlight /\ attached /\ filled) => ~Disabled

\* C15: an invocation never has two calls outstanding; the button is disabled
\* once isLoading is rendered, so an invocation begun by the button began
\* while the form showed no loading; handleSubmit has no guard of its own.
C15_OneCallEach ==
    /\ OneCallEach
    /\ \A i \in 1..Len(runs) : runs[i].via = "click" => ~runs[i].shown

\* two invocations of CreateEntity, the second through the form's submit event
\* while the button was disabled, each with an outstanding call
C15_Witness ==
    /\ component = "CreateEntity"
    /\ Len(runs) = 2
    /\ runs[2].via = "form" /\ runs[2].shown
    /\ Outstanding(1) # {} /\ Outstanding(2) # {}

\* C16: nothing is done for a request that resolves after its view became
\* irrelevant: no linkEntity, no addTelebizRelationship, no reset of the search
\* query, no navigation.
C16_AsStated == \A a \in acted : ~a.stale

\* linkEntity called for an invocation whose component was unmounted
C16_Witness ==
    /\ ~attached
    /\ \E a \in acted : a.what = "linkEntity" /\ a.stale
    /\ \E a \in acted : a.what = "openTelebizPanelScreen" /\ a.stale

---------------------------------------------------------------------------
(* Claims about the rules of parseRemindAt *)

\* parseRemindAt was given a string and returned
Parsed == Timed /\ call.args.remindAt.t = "string" /\ remindAt.t \in {"date", "undefined"}

\* C17: the absolute rule applies exactly to a raw input that parses as a valid
\* date and holds a hyphen, and it goes first; a valid date without a hyphen
\* is never the result; otherwise the relative, tomorrow and today rules give
\* a date for the inputs they match, and the result is undefined exactly for
\* an input that none matches.
C17_RuleOrder ==
    Parsed =>
      LET raw == call.args.remindAt.s
          date == NewDate(call.args.remindAt, legacy)
      IN IF date.valid /\ includes(raw, "-")
         THEN remindAt = date
         ELSE /\ date.valid => remindAt # date
              /\ shape.kind = "rel" =>
                    /\ remindAt.t = "date"
                    /\ remindAt.valid =>
                          ExactlyAfter(remindAt, now, shape.n, UnitSeconds[shape.unit])
              /\ shape.kind \in {"tom", "tomBare", "tomDate"} =>
                    /\ remindAt.t = "date" /\ remindAt.valid
                    /\ LocalDay(remindAt, tz) > LocalDay(now, tz)
              /\ shape.kind = "today" =>
                    /\ remindAt.t = "date" /\ remindAt.valid
                    /\ LocalDay(remindAt, tz) >= LocalDay(now, tz)
              /\ remindAt = Undefined <=> shape.kind = "junk"

\* "930" parses as a date in the engine, has no hyphen and matches no rule
C17_Witness ==
    /\ Parsed /\ shape.kind = "junk" /\ shape.text = <<"9","3","0">>
    /\ legacy.valid
    /\ remindAt = Undefined

\* the instant that setHours(hours, minutes, 0, 0) gives on the local day `day`
OnDayAt(day, hours, minutes) ==
    /\ remindAt.t = "date" /\ remindAt.valid
    /\ (LocalDay(remindAt, tz) - day) * MsPerDay + LocalMs(remindAt, tz)
          = hours * MsPerHour + minutes * 60000

\* C18: in the tomorrow rule and in the today rule the hour set is the parsed
\* hour plus 12 for pm below 12, 0 for 12 am, and the parsed hour otherwise.
C18_Meridiem ==
    /\ (Parsed /\ shape.kind = "tom") =>
          OnDayAt(LocalDay(now, tz) + 1, ClockHour(shape.clock),
                  IF shape.clock.m >= 0 THEN shape.clock.m ELSE 0)
    /\ (Parsed /\ shape.kind = "today") =>
          OnDayAt(LocalDay(now, tz), ClockHour(shape.clock),
                  IF shape.clock.m >= 0 THEN shape.clock.m ELSE 0)

\* "tomorrow at 12 am" gives 00:00 of the day after now's date
C18_Witness ==
    /\ Parsed /\ shape.kind = "tom"
    /\ shape.clock = [h |-> 12, m |-> -1, gap |-> TRUE, ampm |-> "am"]
    /\ AtLocal(LocalDay(now, tz) + 1, 0)

\* C19: a result of the today rule is on now's local date, a result of the
\* tomorrow rule on the day after it, whatever the digits.
C19_AsStated ==
    /\ (Parsed /\ shape.kind = "today") =>
          /\ remindAt.t = "date" /\ remindAt.valid
          /\ LocalDay(remindAt, tz) = LocalDay(now, tz)
    /\ (Parsed /\ shape.kind \in {"tom", "tomBare"}) =>
          /\ remindAt.t = "date" /\ remindAt.valid
          /\ LocalDay(remindAt, tz) = LocalDay(now, tz) + 1

\* "24" as an hour gives 00:00 of the day after now's date
C19_Witness ==
    /\ Parsed /\ shape.kind = "today"
    /\ shape.clock = [h |-> 24, m |-> -1, gap |-> FALSE, ampm |-> "none"]
    /\ AtLocal(LocalDay(now, tz) + 1, 0)

---------------------------------------------------------------------------
(* Claims about the type of a built field *)

\* the type of the field built from property p
TypeOf(p) ==
    LET at == CHOOSE i \in 1..Len(formFields) : formFields[i].name = p.standardName
    IN formFields[at].type

HasOptions(p) ==
    \/ p.options.k = "list" /\ Len(p.options.items) > 0
    \/ p.options.k = "record" /\ DOMAIN p.options.map # {}

DeclaresMultiselect(p) ==
    p.type = "multiselect" \/ getPropertyType(p, props.provider) = "multiselect"

\* the properties that were asked for
Requested == {k \in 1..Len(props.properties) :
                 InSeq(props.properties[k].standardName, props.fieldNames)}

\* C20: a property that declares itself multiselect is built as multiselect
\* whatever its options; any other property with a non-empty list or mapping
\* of options is built as select; for the rest the table decides.  No property
\* with options is built as text, textarea, number or date.
C20_Override ==
    Built =>
      \A k \in Requested :
         LET p == props.properties[k]
         IN /\ TypeOf(p) = IF DeclaresMultiselect(p) THEN "multiselect"
                           ELSE IF HasOptions(p) THEN "select"
                           ELSE mapPropertyTypeToFormType(getPropertyType(p, props.provider))
            /\ HasOptions(p) => TypeOf(p) \notin {"text", "textarea", "number", "date"}

\* a text property and a set property with options built as select, next to a
\* multiselect property with options built as multiselect
C20_Witness ==
    /\ Built
    /\ \E k \in Requested :
          LET p == props.properties[k]
          IN p.semantic = "text" /\ p.options = Options12 /\ TypeOf(p) = "select"
    /\ \E k \in Requested :
          LET p == props.properties[k]
          IN p.semantic = "set" /\ p.options = Options12 /\ TypeOf(p) = "select"
    /\ \E k \in Requested :
          LET p == props.properties[k]
          IN p.semantic = "multiselect" /\ HasOptions(p) /\ TypeOf(p) = "multiselect"

---------------------------------------------------------------------------
(* Claims about sortFieldsByPriority *)

Sorted == mounted = "sorted"

NoParent(f) == f.dependsOn = NoName

TitleLike(f) == toLowerCase(f.name) \in {N.title, N.name, N.subject}

NotTitleLike(f) == ~TitleLike(f)

\* select < multiselect < text < number < date < textarea
TypeOrder == <<"select", "multiselect", "text", "number", "date", "textarea">>

Rank(type) == CHOOSE r \in 1..Len(TypeOrder) : TypeOrder[r] = type

OfType(seq, type) == LET Is(f) == f.type = type IN SelectSeq(seq, Is)

\* C21: among the fields without dependsOn of the output, the title-like ones
\* come first in their input order; the others follow in non-decreasing type
\* priority, those of one type in their input order.
C21_Priority ==
    Sorted =>
      LET out == SelectSeq(formFields, NoParent)
          inp == SelectSeq(props.fields, NoParent)
          rest == SelectSeq(out, NotTitleLike)
      IN /\ \A a, b \in 1..Len(out) : (a < b /\ TitleLike(out[b])) => TitleLike(out[a])
         /\ SelectSeq(out, TitleLike) = SelectSeq(inp, TitleLike)
         /\ \A a, b \in 1..Len(rest) : a < b => Rank(rest[a].type) <= Rank(rest[b].type)
         /\ \A r \in 1..Len(TypeOrder) :
               OfType(rest, TypeOrder[r])
                 = OfType(SelectSeq(inp, NotTitleLike), TypeOrder[r])

\* body, subject, owner, title, email: the two title-like fields first as given,
\* then the two text fields as given, then the textarea
C21_Witness ==
    /\ Sorted
    /\ props.fields = <<SortField(N.body, "textarea", NoName),
                        SortField(N.subject, "textarea", NoName),
                        SortField(N.owner, "text", NoName),
                        SortField(N.title, "text", NoName)>>
    /\ formFields = <<SortField(N.subject, "textarea", NoName),
                      SortField(N.title, "text", NoName),
                      SortField(N.owner, "text", NoName),
                      SortField(N.body, "textarea", NoName)>>

Count(seq, f) == Cardinality({i \in 1..Len(seq) : seq[i] = f})

\* a dependent field with no field of its parent's name in the input
Orphan(f) ==
    /\ f.dependsOn # NoName
    /\ \A i \in 1..Len(props.fields) : props.fields[i].name # f.dependsOn

\* C22: the output holds every field of the input as often as the input does,
\* unchanged, and nothing else; a dependent field whose parent is absent is
\* kept at the end, with only dependent fields after it.
C22_Permutation ==
    Sorted =>
      /\ Len(formFields) = Len(props.fields)
      /\ \A f \in SortFieldChoices : Count(formFields, f) = Count(props.fields, f)
      /\ \A i \in 1..Len(formFields) :
            Orphan(formFields[i]) =>
               \A k \in (i+1)..Len(formFields) : formFields[k].dependsOn # NoName

\* an orphan between two fields is moved to the end and nothing is lost
C22_Witness ==
    /\ Sorted
    /\ props.fields = <<SortField(N.priority, "select", N.industry),
                        SortField(N.amount, "number", NoName),
                        SortField(N.amount, "number", NoName),
                        SortField(N.pipeline, "select", NoName)>>
    /\ formFields = <<SortField(N.pipeline, "select", NoName),
                      SortField(N.amount, "number", NoName),
                      SortField(N.amount, "number", NoName),
                      SortField(N.priority, "select", N.industry)>>

---------------------------------------------------------------------------
(* Claims about the unwrapping of option objects *)

AttributeOrder == <<"value", "id", "key", "name", "label">>

RECURSIVE Identifier(_)
\* the first attribute, in the order value, id, key, name, label, that gives a
\* non-empty identifier, unwrapped in turn when it is an object; Undefined when
\* there is none
Identifier(v) ==
    IF v.t # "object" THEN (IF IsPrimitive(v) /\ Truthy(v) THEN v ELSE Undefined)
    ELSE LET found == [i \in 1..Len(AttributeOrder) |->
                          Identifier(Member(v, AttributeOrder[i]))]
             Usable(x) == x # Undefined
             usable == SelectSeq(found, Usable)
         IN IF usable = <<>> THEN Undefined ELSE usable[1]

\* the identifiers of the items that have one, as strings
Identifiers(items) ==
    LET found == [i \in 1..Len(items) |-> Identifier(items[i])]
        Usable(x) == x # Undefined
        usable == SelectSeq(found, Usable)
    IN Arr([i \in 1..Len(usable) |-> Str(String(usable[i]))])

\* C23: an object is unwrapped to the first of value, id, key, name, label that
\* gives a non-empty identifier, a later attribute standing in whenever the
\* earlier ones give none, recursively, and the result is that primitive as a
\* string.
C23_AsStated ==
    /\ (Once /\ nfValue.t = "object" /\ nfField.type = "select") =>
          nfOnce.returned = (IF Identifier(nfValue) = Undefined THEN Str(<<>>)
                             ELSE Str(String(Identifier(nfValue))))
    /\ (Once /\ nfValue.t = "object" /\ nfField.type = "multiselect") =>
          nfOnce.returned = Identifiers(<<nfValue>>)
    /\ (Once /\ nfValue.t = "array" /\ nfField.type = "multiselect") =>
          nfOnce.returned = Identifiers(nfValue.items)

\* an empty value keeps the id from being used: the option is dropped
C23_Witness ==
    /\ Once /\ nfField.type = "multiselect"
    /\ nfValue = Arr(<<Obj([k \in {"value", "id"} |->
                               IF k = "value" THEN Str(<<>>) ELSE Str(<<"i">>)])>>)
    /\ nfOnce.returned = Arr(<<>>)

---------------------------------------------------------------------------
(* Claims about the reminder API calls *)

MutatingTools == {"createReminder", "completeReminder", "deleteReminder", "updateReminder"}

Mutating == pc # "idle" /\ call.toolName \in MutatingTools

\* the refresh follows the resolution of the call and comes with the success
\* result; a failed call gives a failure result and no refresh
CallThenRefresh ==
    /\ pc = "awaitApi" => (Len(apiCalls) = 1 /\ refreshes = 0 /\ result = None)
    /\ pc = "done" =>
          IF Succeeded
          THEN Len(apiCalls) = 1 /\ refreshes = 1
          ELSE /\ refreshes = 0
               /\ Len(apiCalls) = 1 =>
                     (result.t = "ToolResult" /\ result.error.text = "Failed: ")

\* C24 as stated: every mutating operation issues exactly one reminder API
\* call, never a second one; a failed call gives a failure result and no
\* refresh, a successful call one refresh, after it resolved and before the
\* success result.
C24_AsStated ==
    Mutating =>
      /\ Len(apiCalls) = 1
      /\ apiCalls[1].method = call.toolName
      /\ CallThenRefresh

\* C24, amended: at most one call, and exactly one unless createReminder or
\* updateReminder ends before its call, which it does without a success
\* result; the rest as stated.
C24_OneCall ==
    Mutating =>
      /\ Len(apiCalls) <= 1
      /\ Len(apiCalls) = 1 => apiCalls[1].method = call.toolName
      /\ Len(apiCalls) = 0 =>
            /\ pc = "done"
            /\ call.toolName \in {"createReminder", "updateReminder"}
            /\ ~Succeeded
      /\ CallThenRefresh

\* a deleteReminder whose call failed: one call, a failure result, no refresh
C24_Witness ==
    /\ pc = "done" /\ call.toolName = "deleteReminder"
    /\ Len(apiCalls) = 1
    /\ result.t = "ToolResult" /\ ~result.success /\ result.error.text = "Failed: "
    /\ refreshes = 0

---------------------------------------------------------------------------
(* Claims about the course of a create action *)

\* C25: a form is cleared only by an invocation whose entity was created; an
\* invocation whose request failed leaves it as it was.
C25_AsStated ==
    \A i \in 1..Len(runs) :
       /\ runs[i].cleared => runs[i].outcome = "created"
       /\ runs[i].outcome = "failed" => ~runs[i].cleared

\* CreateEntity: createProviderEntity failed and the form was emptied
C25_Witness ==
    /\ component = "CreateEntity" /\ attached
    /\ Len(runs) = 1 /\ runs[1].outcome = "failed" /\ runs[1].cleared
    /\ ~filled

\* C26: isCreating is true only while a create request of the component is
\* outstanding.
C26_AsStated == isCreating => InFlight

\* CreateAndAssociateEntity: the association was created and isCreating is
\* still true
C26_Witness ==
    /\ component = "CreateAndAssociateEntity"
    /\ Len(runs) = 1 /\ runs[1].outcome = "created"
    /\ pending = {}
    /\ isCreating

\* what invocation i has done past its awaits
Did(i, what) == \E a \in acted : a.run = i /\ a.what = what

StepOf(i, what) == (CHOOSE a \in acted : a.run = i /\ a.what = what).at

AfterLink == <<"addTelebizRelationship", "setSearchQuery", "openTelebizPanelScreen">>

\* C27: in CreateEntity linkEntity is called only for an entity that
\* createProviderEntity returned; the relationship is added, the search query
\* reset and the Main screen opened only once linkEntity has succeeded, in
\* this order; when a call fails or no entity comes back none of the three is
\* done, and handleCreate does not reject.
C27_LinkThenAct ==
    component = "CreateEntity" =>
      \A i \in 1..Len(runs) :
         /\ Did(i, "linkEntity") => runs[i].entity
         /\ (\E k \in 1..3 : Did(i, AfterLink[k])) =>
               /\ runs[i].outcome = "created"
               /\ Did(i, "linkEntity")
               /\ \A k \in 1..3 : Did(i, AfterLink[k])
               /\ StepOf(i, AfterLink[1]) < StepOf(i, AfterLink[2])
               /\ StepOf(i, AfterLink[2]) < StepOf(i, AfterLink[3])
         /\ runs[i].outcome \in {"failed", "noEntity"} =>
               \A k \in 1..3 : ~Did(i, AfterLink[k])
         /\ runs[i].pc # "failed"

\* linkEntity failed after an entity was created: nothing more was done and
\* handleCreate resolved
C27_Witness ==
    /\ component = "CreateEntity"
    /\ Len(runs) = 1 /\ runs[1].entity /\ Did(1, "linkEntity")
    /\ runs[1].outcome = "failed" /\ runs[1].pc = "done"
    /\ ~Did(1, "addTelebizRelationship")

---------------------------------------------------------------------------
(* Claims about listReminders *)

Listed == pc = "done" /\ call.toolName = "listReminders"

\* the stored reminders of the chat, in stored order; all of them when no
\* chatId is given (left out or empty)
StoredFor(chatId) ==
    LET OfChat(r) == r.chat_id = chatId
        stored == IF chatId \in {Undefined, Str(<<>>)} THEN global.reminders
                  ELSE SelectSeq(global.reminders, OfChat)
    IN [i \in 1..Len(stored) |-> [id |-> stored[i].id, chatId |-> stored[i].chat_id]]

\* C28: listReminders issues no reminder API call and no refresh and leaves the
\* reminders state as it is; while the reminders load it succeeds with an empty
\* list and count 0, even with an error recorded; else with an error recorded
\* it fails; else it succeeds with the stored reminders of the given chat, in
\* stored order, and their number as count.
C28_ListOrder ==
    /\ [](Listed =>
            /\ apiCalls = <<>> /\ refreshes = 0
            /\ IF global.isLoading
               THEN Succeeded /\ result.data.reminders = <<>> /\ result.data.count = 0
               ELSE IF global.error # Undefined
               THEN result.t = "ToolResult" /\ ~result.success
               ELSE /\ Succeeded
                    /\ result.data.reminders = StoredFor(call.args.chatId)
                    /\ result.data.count = Len(result.data.reminders))
    /\ [][global' = global]_vars

\* loading with an error recorded: an empty list, not a failure
C28_Witness ==
    /\ Listed /\ global.isLoading /\ global.error # Undefined
    /\ Succeeded /\ result.data.count = 0

---------------------------------------------------------------------------
(* Claims: the media editor *)

Abs(n) == IF n < 0 THEN -n ELSE n

\* C29: in crop mode the offset of the image stays within the bound that the
\* current zoom allows, on both axes, after any zoom changes and drags; at
\* zoom 100 it is (0, 0)
C29_AsStated ==
    mode = "crop" =>
        /\ Abs(imagePosition.x) <= maxOffset
        /\ Abs(imagePosition.y) <= maxOffset

\* the image was dragged at a higher zoom and the zoom is back at 100
C29_Witness ==
    /\ mode = "crop" /\ zoom = MIN_ZOOM
    /\ imagePosition # [x |-> 0, y |-> 0]

\* C30: in crop mode no stroke is in progress, after any interleaving of
\* pointer events and mode switches, and every stored stroke has at least
\* two points
C30_AsStated ==
    /\ mode = "crop" => ~isDrawing /\ currentAction = Undefined
    /\ \A i \in 1..Len(drawActions) : Len(drawActions[i].points) >= 2

\* the mode was switched to crop during a stroke
C30_Witness == mode = "crop" /\ isDrawing /\ currentAction # Undefined

====
